---- MODULE Spec2Model ----
(***************************************************************************)
(* SCIM 2.0 -> Active Directory bridge: the /scim/v2/Users request         *)
(* processor (src/src/routes/scim/users.ts, mirrored by                    *)
(* src/src/backend.ts), the PowerShell execution layer                     *)
(* (src/src/powershell.ts), the attribute mapper                           *)
(* (src/src/config/mapping.ts) and the formatter / patch applier           *)
(* (src/unnamed/part_000).                                                 *)
(*                                                                         *)
(* Every request is a process that advances one I/O operation (cache       *)
(* query, cache mutation, directory command) per step; the code between    *)
(* two awaits runs atomically on the single JavaScript thread and is       *)
(* folded into the step of the I/O operation that precedes it.             *)
(***************************************************************************)
EXTENDS Integers, Sequences, FiniteSets, Bags, TLC

VARIABLES
    cache,      \* the scim_users table
    audit,      \* the powershell_executions table
    req,        \* the handlers in flight
    remaining   \* the number of requests still to arrive

vars == <<cache, audit, req, remaining>>

-----------------------------------------------------------------------------
(* Bounds of the model.                                                    *)

\* number of requests that can be in flight at the same time
NumSlots == 2
\* total number of requests issued in one behaviour
MaxRequests == 3
\* the same, in the behaviours that keep the audit table
MaxAuditRequests == 2

Slots == 1..NumSlots

-----------------------------------------------------------------------------
(* JSON values.  A JavaScript value is a tagged record: t = "u" undefined, *)
(* "n" null, "s" string, "b" boolean, "o" object (v a function from keys   *)
(* to values), "l" array (v a sequence of values).  A top-level resource   *)
(* is a function from keys to values.                                      *)

Undef == [t |-> "u"]
Null == [t |-> "n"]
Str(s) == [t |-> "s", v |-> s]
Bool(b) == [t |-> "b", v |-> b]
Obj(f) == [t |-> "o", v |-> f]
Arr(q) == [t |-> "l", v |-> q]

EmptyObj == [k \in {} |-> Undef]

\* o[k] of a JavaScript object: undefined when the key is absent
Get(o, k) == IF k \in DOMAIN o THEN o[k] ELSE Undef

\* JavaScript truthiness of a value
Truthy(x) ==
    CASE x.t = "u" -> FALSE
      [] x.t = "n" -> FALSE
      [] x.t = "s" -> x.v # ""
      [] x.t = "b" -> x.v
      [] OTHER -> TRUE

\* a ?? b
Nullish(x) == x.t \in {"u", "n"}
Coalesce(a, b) == IF Nullish(a) THEN b ELSE a

\* { ...a, ...b }: the keys of b override those of a
Spread(a, b) == [k \in DOMAIN a \cup DOMAIN b |-> IF k \in DOMAIN b THEN b[k] ELSE a[k]]

\* the object a without the keys ks (rest destructuring / delete)
Without(a, ks) == [k \in DOMAIN a \ ks |-> a[k]]

\* JSON.stringify followed by JSON.parse: object members whose value is
\* undefined are dropped, an undefined array element becomes null.
RECURSIVE JsonValue(_)
JsonValue(x) ==
    CASE x.t = "o" ->
            Obj([k \in {j \in DOMAIN x.v : x.v[j].t # "u"} |-> JsonValue(x.v[k])])
      [] x.t = "l" ->
            Arr([i \in DOMAIN x.v |-> IF x.v[i].t = "u" THEN Null ELSE JsonValue(x.v[i])])
      [] OTHER -> x

\* JSON.stringify(x): the text, kept as the value it parses to
JsonStringify(x) == [t |-> "j", v |-> JsonValue(x)]
\* JSON.parse(text)
JsonParse(text) == text.v

-----------------------------------------------------------------------------
(* Strings.                                                                *)

\* s.includes(sub)
Includes(s, sub) ==
    \E i \in 1..(Len(s) - Len(sub) + 1) : SubSeq(s, i, i + Len(sub) - 1) = sub

\* s.substring(0, n)
Substring0(s, n) == IF Len(s) <= n THEN s ELSE SubSeq(s, 1, n)

UpperChars == "ABCDEFGHIJKLMNOPQRSTUVWXYZ"
LowerChars == "abcdefghijklmnopqrstuvwxyz"

LowerChar(c) ==
    IF \E i \in 1..26 : SubSeq(UpperChars, i, i) = c
    THEN LET i == CHOOSE j \in 1..26 : SubSeq(UpperChars, j, j) = c
         IN SubSeq(LowerChars, i, i)
    ELSE c

\* s.toLowerCase()
RECURSIVE ToLowerCase(_)
ToLowerCase(s) ==
    IF Len(s) = 0 THEN ""
    ELSE IF Len(s) = 1 THEN LowerChar(s)
    ELSE LET h == Len(s) \div 2
         IN ToLowerCase(SubSeq(s, 1, h)) \o ToLowerCase(SubSeq(s, h + 1, Len(s)))

\* s.split('@')[0]
SplitAt0(s) ==
    IF Includes(s, "@")
    THEN LET i == CHOOSE j \in 1..Len(s) :
                    /\ SubSeq(s, j, j) = "@"
                    /\ \A k \in 1..(j - 1) : SubSeq(s, k, k) # "@"
         IN SubSeq(s, 1, i - 1)
    ELSE s

\* width of the sAMAccountName column value the handlers derive
SamMaxLen == 20
\* width of last_error
LastErrorMaxLen == 2000

\* variant of the derivation that does not truncate
SamOfUntruncated(userName) == SplitAt0(userName)

\* userName.split('@')[0].substring(0, 20)
SamOf(userName) == Substring0(SplitAt0(userName), SamMaxLen)

-----------------------------------------------------------------------------
(* Attribute mapper (src/src/config/mapping.ts).                           *)

\* o with key k set to x
With(o, k, x) == Spread(o, (k :> x))

\* name?.givenName style access: undefined unless name is an object
Member(x, k) == IF x.t = "o" THEN Get(x.v, k) ELSE Undef

\* variant of the e-mail choice that always takes the first entry
FirstEmail(emails) == emails[1]

\* emails.find((e) => e['primary'] === true) ?? emails[0]
PrimaryEmail(emails) ==
    IF \E i \in DOMAIN emails : Member(emails[i], "primary") = Bool(TRUE)
    THEN emails[CHOOSE i \in DOMAIN emails :
                    /\ Member(emails[i], "primary") = Bool(TRUE)
                    /\ \A j \in 1..(i - 1) : Member(emails[j], "primary") # Bool(TRUE)]
    ELSE emails[1]

\* scimToAdParams(scimUser, baseOu); baseOu = Undef when not given
scimToAdParams(scimUser, baseOu) ==
    LET userName == Get(scimUser, "userName")
        p1 == IF Truthy(userName)
              THEN LET a == With(EmptyObj, "SamAccountName", userName)
                   IN IF userName.t = "s" /\ Includes(userName.v, "@")
                      THEN With(a, "UserPrincipalName", userName)
                      ELSE a
              ELSE EmptyObj
        name == Get(scimUser, "name")
        p2 == IF Truthy(Member(name, "givenName"))
              THEN With(p1, "GivenName", Member(name, "givenName")) ELSE p1
        p3 == IF Truthy(Member(name, "familyName"))
              THEN With(p2, "Surname", Member(name, "familyName")) ELSE p2
        emails == Get(scimUser, "emails")
        p4 == IF emails.t = "l" /\ Len(emails.v) > 0
              THEN LET emailValue == Member(PrimaryEmail(emails.v), "value")
                   IN IF Truthy(emailValue) THEN With(p3, "EmailAddress", emailValue) ELSE p3
              ELSE p3
        displayName == Get(scimUser, "displayName")
        p5 == IF Truthy(displayName) THEN With(p4, "DisplayName", displayName) ELSE p4
        active == Get(scimUser, "active")
        p6 == IF active.t = "b" THEN With(p5, "Enabled", active) ELSE p5
        externalId == Get(scimUser, "externalId")
        p7 == IF Truthy(externalId) THEN With(p6, "EmployeeID", externalId) ELSE p6
        p8 == With(p7, "Name", Coalesce(Get(p7, "DisplayName"), Get(p7, "SamAccountName")))
    IN IF Truthy(baseOu) THEN With(p8, "Path", baseOu) ELSE p8

\* const { Name: _n, Path: _p, ...setParams } = adParams
StripNamePath(adParams) == Without(adParams, {"Name", "Path"})

-----------------------------------------------------------------------------
(* Error classifier and envelopes (src/src/scim/types.ts,                  *)
(* src/unnamed/part_000).                                                  *)

NoScimType == "none"

\* variant of the classifier that tests the not-found phrases first
mapPsErrorToScimNotFoundFirst(stderr) ==
    LET msg == ToLowerCase(stderr)
    IN IF \/ Includes(msg, "cannot find an object with identity")
          \/ Includes(msg, "not found")
          \/ Includes(msg, "no such object")
       THEN [status |-> 404, scimType |-> "noTarget", detail |-> stderr]
       ELSE IF Includes(msg, "already exists") \/ Includes(msg, "already in use")
       THEN [status |-> 409, scimType |-> "uniqueness", detail |-> stderr]
       ELSE IF /\ Includes(msg, "password")
               /\ \/ Includes(msg, "complexity")
                  \/ Includes(msg, "length")
                  \/ Includes(msg, "requirement")
       THEN [status |-> 400, scimType |-> "invalidValue", detail |-> stderr]
       ELSE IF Includes(msg, "access") /\ Includes(msg, "denied")
       THEN [status |-> 403, scimType |-> NoScimType, detail |-> stderr]
       ELSE IF Includes(msg, "invalid") \/ Includes(msg, "bad request")
       THEN [status |-> 400, scimType |-> "invalidValue", detail |-> stderr]
       ELSE [status |-> 500, scimType |-> NoScimType, detail |-> stderr]

\* mapPsErrorToScim(stderr)
mapPsErrorToScim(stderr) ==
    LET msg == ToLowerCase(stderr)
    IN IF Includes(msg, "already exists") \/ Includes(msg, "already in use")
       THEN [status |-> 409, scimType |-> "uniqueness", detail |-> stderr]
       ELSE IF \/ Includes(msg, "cannot find an object with identity")
               \/ Includes(msg, "not found")
               \/ Includes(msg, "no such object")
       THEN [status |-> 404, scimType |-> "noTarget", detail |-> stderr]
       ELSE IF /\ Includes(msg, "password")
               /\ \/ Includes(msg, "complexity")
                  \/ Includes(msg, "length")
                  \/ Includes(msg, "requirement")
       THEN [status |-> 400, scimType |-> "invalidValue", detail |-> stderr]
       ELSE IF Includes(msg, "access") /\ Includes(msg, "denied")
       THEN [status |-> 403, scimType |-> NoScimType, detail |-> stderr]
       ELSE IF Includes(msg, "invalid") \/ Includes(msg, "bad request")
       THEN [status |-> 400, scimType |-> "invalidValue", detail |-> stderr]
       ELSE [status |-> 500, scimType |-> NoScimType, detail |-> stderr]

\* formatListResponse(users, totalResults, startIndex), without the schemas
\* constant
formatListResponse(users, totalResults, startIndex) ==
    [totalResults |-> totalResults, startIndex |-> startIndex,
     itemsPerPage |-> Len(users), Resources |-> users]

\* the list part of a reply that is no list
NoList == formatListResponse(<<>>, 0, 0)

\* reply.status(status).send(formatError(status, detail, scimType))
formatError(status, detail, scimType) ==
    [kind |-> "error", status |-> status, scimType |-> scimType, detail |-> detail,
     user |-> EmptyObj, location |-> "", list |-> NoList]

\* formatScimUser(row, baseUrl), without the schemas and meta constants
formatScimUser(row) ==
    LET cached == JsonParse(row.scim_resource).v
        opt(k) == IF Nullish(Get(cached, k)) THEN EmptyObj ELSE (k :> Get(cached, k))
    IN  ("id" :> Str(row.id))
        @@ ("userName" :> Coalesce(Get(cached, "userName"),
                                   Coalesce(row.sam_account_name, Str(""))))
        @@ opt("externalId") @@ opt("name") @@ opt("displayName")
        @@ opt("emails") @@ opt("active")

\* reply.status(status).send(formatScimUser(row, baseUrl))
UserReply(status, row) ==
    [kind |-> "user", status |-> status, scimType |-> NoScimType, detail |-> "",
     user |-> formatScimUser(row), location |-> "", list |-> NoList]

\* baseUrl(request): `${request.protocol}://${request.hostname}`
BaseUrl == "https://scim.example"

\* reply.status(201).header('Location', `${baseUrl}/scim/v2/Users/${userId}`)
\*      .send(formatScimUser(row, baseUrl))
CreatedReply(row, userId) ==
    [UserReply(201, row) EXCEPT !.location = BaseUrl \o "/scim/v2/Users/" \o userId]

\* reply.status(204).send()
EmptyReply(status) ==
    [kind |-> "empty", status |-> status, scimType |-> NoScimType, detail |-> "",
     user |-> EmptyObj, location |-> "", list |-> NoList]

\* An exception that escapes an async handler: Fastify's default error
\* handler answers 500 with its own (non-SCIM) body.
Unhandled(message) ==
    [kind |-> "unhandled", status |-> 500, scimType |-> NoScimType, detail |-> message,
     user |-> EmptyObj, location |-> "", list |-> NoList]

NoReply == [kind |-> "none", status |-> 0, scimType |-> NoScimType, detail |-> "",
            user |-> EmptyObj, location |-> "", list |-> NoList]

-----------------------------------------------------------------------------
(* PATCH applier (src/unnamed/part_000, applyPatchOps and helpers).        *)
(* A patch operation is [op, path, value]: op a string, path Undef or a    *)
(* Str, value a JSON value.                                                *)

WordChars == "ABCDEFGHIJKLMNOPQRSTUVWXYZabcdefghijklmnopqrstuvwxyz0123456789_"

Char(s, i) == SubSeq(s, i, i)
IsWordChar(c) == \E i \in 1..Len(WordChars) : Char(WordChars, i) = c
\* the regular expression \w+ matches all of s
IsWord(s) == Len(s) > 0 /\ \A i \in 1..Len(s) : IsWordChar(Char(s, i))

\* index of the first occurrence of the character c in s, 0 when absent
IndexOf(s, c) ==
    IF \E i \in 1..Len(s) : Char(s, i) = c
    THEN CHOOSE i \in 1..Len(s) : Char(s, i) = c /\ \A j \in 1..(i - 1) : Char(s, j) # c
    ELSE 0

\* number of occurrences of the character c in s
CountChar(s, c) == Cardinality({i \in 1..Len(s) : Char(s, i) = c})

\* s.trim(), for the space character
RECURSIVE TrimLeft(_)
TrimLeft(s) == IF Len(s) > 0 /\ Char(s, 1) = " " THEN TrimLeft(SubSeq(s, 2, Len(s))) ELSE s
RECURSIVE TrimRight(_)
TrimRight(s) ==
    IF Len(s) > 0 /\ Char(s, Len(s)) = " " THEN TrimRight(SubSeq(s, 1, Len(s) - 1)) ELSE s
Trim(s) == TrimRight(TrimLeft(s))

\* length of the longest prefix of s made of word characters
WordPrefixLen(s) ==
    IF \E i \in 1..Len(s) : ~IsWordChar(Char(s, i))
    THEN (CHOOSE i \in 1..Len(s) :
            ~IsWordChar(Char(s, i)) /\ \A j \in 1..(i - 1) : IsWordChar(Char(s, j))) - 1
    ELSE Len(s)

NoMatch == [ok |-> FALSE, attr |-> "", val |-> "", sub |-> Undef]

\* "?([^"]*)"?$ : an optional quote on either side of a value free of quotes
StripLeadingQuote(v) ==
    IF Len(v) > 0 /\ Char(v, 1) = "\"" THEN SubSeq(v, 2, Len(v)) ELSE v
StripTrailingQuote(v) ==
    IF Len(v) > 0 /\ Char(v, Len(v)) = "\"" THEN SubSeq(v, 1, Len(v) - 1) ELSE v
FilterValue(attr, val) ==
    IF IndexOf(val, "\"") = 0
    THEN [ok |-> TRUE, attr |-> attr, val |-> val, sub |-> Undef]
    ELSE NoMatch

\* \s+ between eq and the value: r4 is r3 without its leading spaces
FilterAfterEq(attr, r3, r4) ==
    IF Len(r4) < Len(r3)
    THEN FilterValue(attr, StripTrailingQuote(StripLeadingQuote(r4)))
    ELSE NoMatch

\* \s+eq after the attribute: r2 is r1 without its leading spaces
FilterAfterAttr(attr, r1, r2) ==
    IF Len(attr) > 0 /\ Len(r2) < Len(r1) /\ Len(r2) >= 2 /\ SubSeq(r2, 1, 2) = "eq"
    THEN FilterAfterEq(attr, SubSeq(r2, 3, Len(r2)), TrimLeft(SubSeq(r2, 3, Len(r2))))
    ELSE NoMatch

\* ^(\w+) : the first n characters of s
FilterAttr(s, n) ==
    FilterAfterAttr(SubSeq(s, 1, n), SubSeq(s, n + 1, Len(s)),
                    TrimLeft(SubSeq(s, n + 1, Len(s))))

FilterTrimmed(s) == FilterAttr(s, WordPrefixLen(s))

\* /^(\w+)\s+eq\s+"?([^"]*)"?$/.exec(filterExpr.trim())
FilterMatch(filterExpr) == FilterTrimmed(Trim(filterExpr))

\* String(x)
RECURSIVE ToStr(_)
ToStr(x) ==
    CASE x.t = "s" -> x.v
      [] x.t = "b" -> IF x.v THEN "true" ELSE "false"
      [] x.t = "u" -> "undefined"
      [] x.t = "n" -> "null"
      [] x.t = "o" -> "[object Object]"
      [] x.t = "l" ->
            LET RECURSIVE Join(_)
                Join(i) == IF i > Len(x.v) THEN ""
                           ELSE (IF i > 1 THEN "," ELSE "")
                                \o (IF Nullish(x.v[i]) THEN "" ELSE ToStr(x.v[i]))
                                \o Join(i + 1)
            IN Join(1)

\* the comparison of matchesFilter, on the item's value and the filter's value
FilterValueMatches(itemVal, val) ==
    IF val = "true" THEN itemVal = Bool(TRUE)
    ELSE IF val = "false" THEN itemVal = Bool(FALSE)
    ELSE ToStr(itemVal) = val

\* matchesFilter(item, filterExpr), m being the match of FILTER_RE
MatchesParsed(item, m) == m.ok /\ FilterValueMatches(Member(item, m.attr), m.val)

\* matchesFilter(item, filterExpr)
matchesFilter(item, filterExpr) == MatchesParsed(item, FilterMatch(filterExpr))

\* buildItemFromFilter(filterExpr), m being the match of FILTER_RE
ItemOfMatch(m) == IF m.ok THEN (m.attr :> Str(m.val)) ELSE EmptyObj

\* buildItemFromFilter(filterExpr)
buildItemFromFilter(filterExpr) == ItemOfMatch(FilterMatch(filterExpr))

\* the own enumerable properties that { ...x } / Object.assign copy from x
OwnProps(x) ==
    CASE x.t = "o" -> x.v
      [] x.t = "s" -> [k \in {ToString(i - 1) : i \in 1..Len(x.v)} |->
                          Str(Char(x.v, (CHOOSE i \in 1..Len(x.v) : ToString(i - 1) = k)))]
      [] x.t = "l" -> [k \in {ToString(i - 1) : i \in 1..Len(x.v)} |->
                          x.v[CHOOSE i \in 1..Len(x.v) : ToString(i - 1) = k]]
      [] OTHER -> EmptyObj

\* (?:\.(\w+))?$ : what follows the closing bracket
MvSubAttr(attr, filter, tail) ==
    IF tail = ""
    THEN [ok |-> TRUE, attr |-> attr, val |-> filter, sub |-> Undef]
    ELSE IF Char(tail, 1) = "." /\ IsWord(SubSeq(tail, 2, Len(tail)))
    THEN [ok |-> TRUE, attr |-> attr, val |-> filter, sub |-> Str(SubSeq(tail, 2, Len(tail)))]
    ELSE NoMatch

\* \[([^\]]+)\] : rest follows the opening bracket, j is the index of "]" in it
MvFilter(attr, rest, j) ==
    IF j > 1
    THEN MvSubAttr(attr, SubSeq(rest, 1, j - 1), SubSeq(rest, j + 1, Len(rest)))
    ELSE NoMatch

\* ^(\w+)\[ : i is the index of "[" in path
MvAttr(path, i) ==
    IF i > 1 /\ IsWord(SubSeq(path, 1, i - 1))
    THEN MvFilter(SubSeq(path, 1, i - 1), SubSeq(path, i + 1, Len(path)),
                  IndexOf(SubSeq(path, i + 1, Len(path)), "]"))
    ELSE NoMatch

\* /^(\w+)\[([^\]]+)\](?:\.(\w+))?$/.exec(path): attr, filter (in val), subAttr
MvMatch(path) == MvAttr(path, IndexOf(path, "["))

\* arr.filter((item) => !matchesFilter(item, filterExpr))
RECURSIVE RejectMatching(_, _)
RejectMatching(arr, filterExpr) ==
    IF arr = <<>> THEN <<>>
    ELSE (IF matchesFilter(Head(arr), filterExpr) THEN <<>> ELSE <<Head(arr)>>)
         \o RejectMatching(Tail(arr), filterExpr)

\* index of arr.find((item) => matchesFilter(item, filterExpr)) at or after i,
\* 0 when none
RECURSIVE FindMatchingFrom(_, _, _)
FindMatchingFrom(arr, filterExpr, i) ==
    IF i > Len(arr) THEN 0
    ELSE IF matchesFilter(arr[i], filterExpr) THEN i
    ELSE FindMatchingFrom(arr, filterExpr, i + 1)

FindMatching(arr, filterExpr) == FindMatchingFrom(arr, filterExpr, 1)

\* the state the applier threads through the operations
PatchState(updated, changedFields, threw) ==
    [updated |-> updated, changedFields |-> changedFields, threw |-> threw]

\* resource[key] = x, then changed[key] = resource[key]
AssignKey(st, key, x) ==
    PatchState(With(st.updated, key, x), With(st.changedFields, key, x), FALSE)

\* delete resource[key], then changed[key] = resource[key] (undefined)
DeleteKey(st, key) ==
    PatchState(Without(st.updated, {key}), With(st.changedFields, key, Undef), FALSE)

SetKey(st, key, verb, x) ==
    IF verb = "remove" THEN DeleteKey(st, key) ELSE AssignKey(st, key, x)

\* the array an add/replace with a value filter leaves: t is the index of the
\* matching item (0 when none), item0 the item built from the filter
MvUpserted(arr, t, item0, m, x) ==
    IF t > 0 /\ m.sub.t = "s"
    THEN [arr EXCEPT ![t] = Obj(With(OwnProps(arr[t]), m.sub.v, x))]
    ELSE IF t = 0
    THEN Append(arr, Obj(IF m.sub.t = "s" THEN With(item0, m.sub.v, x)
                         ELSE Spread(item0, OwnProps(x))))
    ELSE [arr EXCEPT ![t] = Obj(Spread(OwnProps(arr[t]), OwnProps(x)))]

MvNewArray(arr, m, verb, x) ==
    IF verb = "remove" THEN RejectMatching(arr, m.val)
    ELSE MvUpserted(arr, FindMatching(arr, m.val), buildItemFromFilter(m.val), m, x)

\* the multi-valued branch of applyPath, cur being resource[attr] ?? []
MvOnCurrent(st, m, verb, x, cur) ==
    IF cur.t # "l"
    THEN [st EXCEPT !.threw = TRUE]
    ELSE AssignKey(st, m.attr, Arr(MvNewArray(cur.v, m, verb, x)))

ApplyMultiValued(st, m, verb, x) ==
    MvOnCurrent(st, m, verb, x, Coalesce(Get(st.updated, m.attr), Arr(<<>>)))

\* the dotted branch of applyPath, parentObj being resource[parent] ?? {}
DottedOnParent(st, parent, child, verb, x, parentObj) ==
    IF parentObj.t # "o"
    THEN [st EXCEPT !.threw = TRUE]
    ELSE AssignKey(st, parent,
                   Obj(IF verb = "remove" THEN Without(parentObj.v, {child})
                       ELSE With(parentObj.v, child, x)))

DottedAt(st, parent, child, verb, x) ==
    DottedOnParent(st, parent, child, verb, x,
                   Coalesce(Get(st.updated, parent), Obj(EmptyObj)))

\* the dotted branch of applyPath: parent.child, d the index of the dot
DottedSplit(st, path, d, verb, x) ==
    DottedAt(st, SubSeq(path, 1, d - 1), SubSeq(path, d + 1, Len(path)), verb, x)

ApplyDotted(st, path, verb, x) == DottedSplit(st, path, IndexOf(path, "."), verb, x)

\* applyPath for a path with a dot or a bracket, m being the multi-valued match
ApplyComplexPath(st, path, verb, x, m) ==
    IF m.ok THEN ApplyMultiValued(st, m, verb, x)
    ELSE IF CountChar(path, ".") = 1 THEN ApplyDotted(st, path, verb, x)
    ELSE SetKey(st, path, verb, x)

\* applyPath(resource, changed, path, verb, value) and the recording of the
\* top-level key by applyOp
applyPath(st, path, verb, x) ==
    IF IndexOf(path, ".") = 0 /\ IndexOf(path, "[") = 0
    THEN SetKey(st, path, verb, x)
    ELSE ApplyComplexPath(st, path, verb, x, MvMatch(path))

\* applyOp(resource, changed, op)
applyOp(st, op) ==
    LET verb == ToLowerCase(op.op)
    IN IF st.threw THEN st
       ELSE IF ~Truthy(op.path)
       THEN IF verb \in {"add", "replace"}
            THEN IF Nullish(op.value)
                 THEN [st EXCEPT !.threw = TRUE]
                 ELSE PatchState(Spread(st.updated, OwnProps(op.value)),
                                 Spread(st.changedFields, OwnProps(op.value)), FALSE)
            ELSE st
       ELSE applyPath(st, op.path.v, verb, op.value)

\* applyPatchOps(resource, operations)
RECURSIVE ApplyOpsFrom(_, _)
ApplyOpsFrom(st, ops) ==
    IF ops = <<>> THEN st ELSE ApplyOpsFrom(applyOp(st, Head(ops)), Tail(ops))

\* variant of applyPatchOps whose changedFields starts as the resource
applyPatchOpsReportingAll(resource, operations) ==
    ApplyOpsFrom(PatchState(resource, resource, FALSE), operations)

applyPatchOps(resource, operations) ==
    ApplyOpsFrom(PatchState(resource, EmptyObj, FALSE), operations)

\* What applyPatchOps does to its input.  updated = { ...resource } is a
\* shallow copy: the object or array under a top-level key is the input's
\* own until the key is assigned another value, and the elements of an array
\* stay the input's own when the array is copied (filter, spread).  A
\* tracking state holds the input as the call has left it so far (input), the
\* keys whose value in updated is the input's own object or array (own), and
\* for each array that was copied the index, in the input's array, of each
\* of its elements, 0 for a new element (items).
Tracking(input, own, items) == [input |-> input, own |-> own, items |-> items]

\* the keys are assigned values of the operation
Forget(tr, keys) == Tracking(tr.input, tr.own \ keys, Without(tr.items, keys))

\* resource[attr] is assigned a new array whose elements have the indices idx
Copied(tr, attr, idx) == Tracking(tr.input, tr.own \ {attr}, With(tr.items, attr, idx))

\* the index in the input's array of the i-th element of updated[attr]
ItemIndex(tr, attr, i) ==
    IF attr \in tr.own THEN i
    ELSE IF attr \in DOMAIN tr.items THEN tr.items[attr][i]
    ELSE 0

\* the indices of the elements that arr.filter(...) keeps
RECURSIVE KeptFrom(_, _, _, _, _)
KeptFrom(tr, attr, arr, filterExpr, i) ==
    IF i > Len(arr) THEN <<>>
    ELSE (IF matchesFilter(arr[i], filterExpr) THEN <<>> ELSE <<ItemIndex(tr, attr, i)>>)
         \o KeptFrom(tr, attr, arr, filterExpr, i + 1)

\* the branch of applyPath an operation takes
Writes(op) ==
    IF ~Truthy(op.path)
    THEN IF ToLowerCase(op.op) \in {"add", "replace"} THEN "bulk" ELSE "nothing"
    ELSE IF IndexOf(op.path.v, ".") = 0 /\ IndexOf(op.path.v, "[") = 0 THEN "key"
    ELSE IF MvMatch(op.path.v).ok THEN "element"
    ELSE IF CountChar(op.path.v, ".") = 1 THEN "member"
    ELSE "key"

\* parentObj[child] = value / delete parentObj[child]: on the input's own
\* object when resource[parent] is that object, on a new {} when it is null
\* or undefined.  st2 is the state of the applier after the operation.
TrackMember(tr, st, parent, st2) ==
    IF Nullish(Get(st.updated, parent)) THEN Forget(tr, {parent})
    ELSE IF parent \in tr.own THEN [tr EXCEPT !.input = With(tr.input, parent, st2.updated[parent])]
    ELSE tr

\* the multi-valued branch: arr.filter(...) and [...arr, newItem] give a new
\* array of the same elements; target[subAttr] = value writes to the element
\* itself; arr[idx] = {...} writes to the array itself.  arr is resource[attr]
\* ?? [], t the index of the target in it (0 when none).
TrackElement(tr, attr, m, verb, arr, t, st2) ==
    IF verb = "remove" THEN Copied(tr, attr, KeptFrom(tr, attr, arr, m.val, 1))
    ELSE IF t = 0
    THEN Copied(tr, attr, [i \in 1..Len(arr) |-> ItemIndex(tr, attr, i)] \o <<0>>)
    ELSE IF m.sub.t = "s"
    THEN IF ItemIndex(tr, attr, t) > 0
         THEN [tr EXCEPT !.input =
                  With(tr.input, attr,
                       Arr([tr.input[attr].v EXCEPT
                               ![ItemIndex(tr, attr, t)] = st2.updated[attr].v[t]]))]
         ELSE tr
    ELSE IF attr \in tr.own
    THEN [tr EXCEPT !.input = With(tr.input, attr, st2.updated[attr])]
    ELSE Copied(tr, attr, [[i \in 1..Len(arr) |-> ItemIndex(tr, attr, i)] EXCEPT ![t] = 0])

TrackMatch(tr, st, m, verb, arr, st2) ==
    TrackElement(tr, m.attr, m, verb, arr, FindMatching(arr, m.val), st2)

\* the input after one operation that does not throw
TrackOp(tr, st, op, st2) ==
    CASE Writes(op) = "nothing" -> tr
      [] Writes(op) = "bulk" -> Forget(tr, DOMAIN OwnProps(op.value))
      [] Writes(op) = "key" -> Forget(tr, {op.path.v})
      [] Writes(op) = "member" ->
            TrackMember(tr, st, SubSeq(op.path.v, 1, IndexOf(op.path.v, ".") - 1), st2)
      [] Writes(op) = "element" ->
            TrackMatch(tr, st, MvMatch(op.path.v), ToLowerCase(op.op),
                       Coalesce(Get(st.updated, MvMatch(op.path.v).attr), Arr(<<>>)).v, st2)

\* an operation that throws does so before it writes anything
RECURSIVE TrackFrom(_, _, _)
TrackFrom(tr, st, ops) ==
    IF ops = <<>> \/ applyOp(st, Head(ops)).threw THEN tr
    ELSE TrackFrom(TrackOp(tr, st, Head(ops), applyOp(st, Head(ops))),
                   applyOp(st, Head(ops)), Tail(ops))

\* the object passed as resource, after applyPatchOps(resource, operations)
\* has returned or thrown
InputAfter(resource, operations) ==
    TrackFrom(Tracking(resource, DOMAIN resource, [k \in {} |-> <<>>]),
              PatchState(resource, EmptyObj, FALSE), operations).input

\* mergeAdIntoScim(existing, adUser) of src/src/config/mapping.ts: the
\* directory-to-SCIM direction of the attribute mapper
mergeAdIntoScim(existing, adUser) ==
    LET m1 == IF Truthy(Get(adUser, "SamAccountName"))
              THEN With(existing, "userName", Get(adUser, "SamAccountName"))
              ELSE existing
        m2 == IF Truthy(Get(adUser, "DisplayName"))
              THEN With(m1, "displayName", Get(adUser, "DisplayName"))
              ELSE m1
        given == IF Truthy(Get(adUser, "GivenName"))
                 THEN ("givenName" :> Get(adUser, "GivenName")) ELSE EmptyObj
        family == IF Truthy(Get(adUser, "Surname"))
                  THEN ("familyName" :> Get(adUser, "Surname")) ELSE EmptyObj
        m3 == IF Truthy(Get(adUser, "GivenName")) \/ Truthy(Get(adUser, "Surname"))
              THEN With(m2, "name",
                        Obj(Spread(Spread(OwnProps(Coalesce(Get(m2, "name"), Obj(EmptyObj))),
                                          given), family)))
              ELSE m2
        m4 == IF Truthy(Get(adUser, "EmailAddress"))
              THEN With(m3, "emails",
                        Arr(<<Obj(("value" :> Get(adUser, "EmailAddress"))
                                  @@ ("type" :> Str("work"))
                                  @@ ("primary" :> Bool(TRUE)))>>))
              ELSE m3
    IN IF Get(adUser, "Enabled").t = "b"
       THEN With(m4, "active", Get(adUser, "Enabled"))
       ELSE m4

-----------------------------------------------------------------------------
(* List filter parser (src/unnamed/part_000, parseScimFilter) and the      *)
(* numbers of the list query (src/src/routes/scim/users.ts).               *)

ListOperators == {"eq", "ne", "co", "sw", "ew", "pr", "gt", "ge", "lt", "le"}

\* ATTRIBUTE_TO_COLUMN
AttributeToColumn ==
    ("id" :> "id") @@ ("externalid" :> "id") @@ ("username" :> "sam_account_name")

\* parseScimFilter returns null
NoFilter == [ok |-> FALSE, attribute |-> "", operator |-> "", value |-> "", dbColumn |-> ""]

\* length of the longest prefix of s free of spaces: what (\S+) takes
NonSpacePrefixLen(s) ==
    IF \E i \in 1..Len(s) : Char(s, i) = " "
    THEN IndexOf(s, " ") - 1
    ELSE Len(s)

\* const dbColumn = ATTRIBUTE_TO_COLUMN[attribute.toLowerCase()];
\* if (!dbColumn) return null
FilterColumn(attribute, operator, value, lower) ==
    IF lower \in DOMAIN AttributeToColumn
    THEN [ok |-> TRUE, attribute |-> attribute, operator |-> operator, value |-> value,
          dbColumn |-> AttributeToColumn[lower]]
    ELSE NoFilter

\* \s+"([^"]*)"$ : r4 is r3 without its leading spaces
QuotedValue(attribute, operator, r3, r4) ==
    IF /\ Len(r4) < Len(r3)
       /\ Len(r4) >= 2
       /\ Char(r4, 1) = "\""
       /\ Char(r4, Len(r4)) = "\""
       /\ IndexOf(SubSeq(r4, 2, Len(r4) - 1), "\"") = 0
    THEN FilterColumn(attribute, operator, SubSeq(r4, 2, Len(r4) - 1),
                      ToLowerCase(attribute))
    ELSE NoFilter

\* \s+(eq|ne|co|sw|ew|pr|gt|ge|lt|le) with the i flag: r2 is r1 without its
\* leading spaces
FilterOperator(attribute, r1, r2) ==
    IF /\ Len(attribute) > 0
       /\ Len(r2) < Len(r1)
       /\ Len(r2) >= 2
       /\ ToLowerCase(SubSeq(r2, 1, 2)) \in ListOperators
    THEN QuotedValue(attribute, ToLowerCase(SubSeq(r2, 1, 2)),
                     SubSeq(r2, 3, Len(r2)), TrimLeft(SubSeq(r2, 3, Len(r2))))
    ELSE NoFilter

\* ^(\S+) : the first n characters of s
FilterAttribute(s, n) ==
    FilterOperator(SubSeq(s, 1, n), SubSeq(s, n + 1, Len(s)),
                   TrimLeft(SubSeq(s, n + 1, Len(s))))

ParseTrimmed(s) == FilterAttribute(s, NonSpacePrefixLen(s))

\* parseScimFilter(filter): FILTER_RE.exec(filter.trim()) and the column
parseScimFilter(filter) == ParseTrimmed(Trim(filter))

Digits == "0123456789"
IsDigit(c) == \E i \in 1..10 : Char(Digits, i) = c
DigitValue(c) == (CHOOSE i \in 1..10 : Char(Digits, i) = c) - 1

\* the number a string of decimal digits denotes
RECURSIVE DigitsValue(_)
DigitsValue(s) ==
    IF Len(s) = 0 THEN 0
    ELSE 10 * DigitsValue(SubSeq(s, 1, Len(s) - 1)) + DigitValue(Char(s, Len(s)))

\* length of the longest prefix of s made of digits
DigitPrefixLen(s) ==
    IF \E i \in 1..Len(s) : ~IsDigit(Char(s, i))
    THEN (CHOOSE i \in 1..Len(s) :
            ~IsDigit(Char(s, i)) /\ \A j \in 1..(i - 1) : IsDigit(Char(s, j))) - 1
    ELSE Len(s)

\* parseInt(s, 10) of a string that starts, after an optional '-', with a
\* digit: the digits up to the first character that is none.  (Of any other
\* string parseInt is NaN; the queries of the model hold no such string.)
parseInt(s) ==
    IF Len(s) > 0 /\ Char(s, 1) = "-"
    THEN 0 - DigitsValue(SubSeq(s, 2, 1 + DigitPrefixLen(SubSeq(s, 2, Len(s)))))
    ELSE DigitsValue(SubSeq(s, 1, DigitPrefixLen(s)))

MathMax(a, b) == IF a >= b THEN a ELSE b
MathMin(a, b) == IF a <= b THEN a ELSE b

MaxPageSize == 200
DefaultPageSize == "100"

\* variant of the start index that is not clamped
ListStartIndexUnclamped(query) ==
    parseInt(Coalesce(Get(query, "startIndex"), Str("1")).v)

\* const startIndex = Math.max(1, parseInt(startIndexStr ?? '1', 10))
ListStartIndex(query) ==
    MathMax(1, parseInt(Coalesce(Get(query, "startIndex"), Str("1")).v))

\* const pageSize = Math.min(200, Math.max(1, parseInt(countStr ?? '100', 10)))
ListPageSize(query) ==
    MathMin(MaxPageSize,
            MathMax(1, parseInt(Coalesce(Get(query, "count"), Str(DefaultPageSize)).v)))

\* no where(...) on the queries
NoWhere == [on |-> FALSE, dbColumn |-> "", value |-> ""]

\* variant of the predicate that is applied whatever the operator
WhereOfAnyOperator(parsed) ==
    IF parsed.ok
    THEN [on |-> TRUE, dbColumn |-> parsed.dbColumn, value |-> parsed.value]
    ELSE NoWhere

\* if (parsed) { if (parsed.operator === 'eq') where(parsed.dbColumn, parsed.value) }
WhereOf(parsed) ==
    IF parsed.ok /\ parsed.operator = "eq"
    THEN [on |-> TRUE, dbColumn |-> parsed.dbColumn, value |-> parsed.value]
    ELSE NoWhere

\* if (filter) { const parsed = parseScimFilter(filter); ... }
ListWhere(query) ==
    IF Truthy(Get(query, "filter"))
    THEN WhereOf(parseScimFilter(Get(query, "filter").v))
    ELSE NoWhere

-----------------------------------------------------------------------------
(* Cache store: the scim_users table (src/src/db.ts).  cache is a function *)
(* from the ids of the rows that exist to the rows.                        *)

\* the row that db('scim_users').insert({...}) of the create handler writes;
\* the columns it does not name take their defaults (NULL)
NewRow(id, sam, scimResource, objectGuid, ts) ==
    [id |-> id,
     ad_object_guid |-> objectGuid,
     sam_account_name |-> sam,
     scim_resource |-> JsonStringify(Obj(scimResource)),
     ad_resource |-> Null,
     sync_status |-> "synced",
     last_error |-> Null,
     created_at |-> ts]

\* now(): the time of the clock, as far as created_at shows it: later than
\* the created_at of every row of c.  (Two rows created within the same
\* millisecond, which the order of a list leaves open, are not modelled.)
now(c) ==
    IF DOMAIN c = {} THEN 1
    ELSE 1 + (CHOOSE t \in {c[i].created_at : i \in DOMAIN c} :
                 \A i \in DOMAIN c : c[i].created_at <= t)

\* db('scim_users').where({ id }).first(): <<>> or <<row>>
FindById(c, id) == IF id \in DOMAIN c THEN <<c[id]>> ELSE <<>>

\* db('scim_users').where({ sam_account_name: sam }).first() finds a row
ExistsBySam(c, sam) == \E i \in DOMAIN c : c[i].sam_account_name = Str(sam)

\* t.string('id').primary() and t.text('sam_account_name').unique():
\* the row set c with row (of id) satisfies both constraints
ConstraintsHold(c, id, row) ==
    \A i \in DOMAIN c \ {id} :
        row.sam_account_name.t = "n" \/ c[i].sam_account_name # row.sam_account_name

\* insert succeeds: no row has the id, and the constraints hold
InsertOk(c, row) == row.id \notin DOMAIN c /\ ConstraintsHold(c, row.id, row)

Insert(c, row) == [i \in DOMAIN c \cup {row.id} |-> IF i = row.id THEN row ELSE c[i]]

\* db('scim_users').where({ id }).update(fields): the columns named in
\* fields are overwritten on the row with that id, if there is one
UpdatedRow(row, fields) == [k \in DOMAIN row |-> IF k \in DOMAIN fields THEN fields[k] ELSE row[k]]

UpdateOk(c, id, fields) ==
    id \in DOMAIN c => ConstraintsHold(c, id, UpdatedRow(c[id], fields))

\* variant of the update that writes a row when none has the id
UpdateUpserting(c, id, fields) ==
    IF id \in DOMAIN c
    THEN [i \in DOMAIN c |-> IF i = id THEN UpdatedRow(c[i], fields) ELSE c[i]]
    ELSE Insert(c, UpdatedRow(NewRow(id, Null, EmptyObj, Null, 0), fields))

Update(c, id, fields) ==
    [i \in DOMAIN c |-> IF i = id THEN UpdatedRow(c[i], fields) ELSE c[i]]

\* db('scim_users').where({ id }).delete()
Delete(c, id) == [i \in DOMAIN c \ {id} |-> c[i]]

\* the value of a column of a row, as where(column, value) compares it
ColumnOf(row, dbColumn) == IF dbColumn = "id" THEN Str(row.id) ELSE row.sam_account_name

\* the ids of the rows of c that the query selects
Matching(c, where) ==
    {i \in DOMAIN c : where.on => ColumnOf(c[i], where.dbColumn) = Str(where.value)}

\* .orderBy('created_at', 'asc'): the rows with the ids, oldest first
OrderByCreatedAt(c, ids) ==
    [k \in 1..Cardinality(ids) |->
        c[CHOOSE i \in ids :
              Cardinality({j \in ids : c[j].created_at < c[i].created_at}) = k - 1]]

\* variant of the page that starts one row late
OffsetLimitOneLate(rows, offset, limit) ==
    SubSeq(rows, offset + 2, MathMin(Len(rows), offset + 1 + limit))

\* .offset(offset).limit(limit)
OffsetLimit(rows, offset, limit) ==
    SubSeq(rows, offset + 1, MathMin(Len(rows), offset + limit))

\* countQuery.count('id as total')
CountRows(c, where) == Cardinality(Matching(c, where))

\* query.orderBy('created_at', 'asc').offset(startIndex - 1).limit(pageSize).select()
SelectRows(c, where, startIndex, pageSize) ==
    OffsetLimit(OrderByCreatedAt(c, Matching(c, where)), startIndex - 1, pageSize)

-----------------------------------------------------------------------------
(* PowerShell execution layer (src/src/powershell.ts).  The directory is   *)
(* the environment: what a command run returns (stdout, stderr, exit code) *)
(* is chosen nondeterministically from the outcomes below.                 *)

Redacted == "***REDACTED***"
SensitiveKeys == {"accountpassword", "password", "secret", "token"}
StdioMaxLen == 65535

\* variant of sanitizeParams that compares the keys as they are written
sanitizeParamsCaseSensitive(params) ==
    [k \in DOMAIN params |->
        IF k \in SensitiveKeys THEN Str(Redacted) ELSE params[k]]

\* sanitizeParams(params)
sanitizeParams(params) ==
    [k \in DOMAIN params |->
        IF ToLowerCase(k) \in SensitiveKeys THEN Str(Redacted) ELSE params[k]]

\* stdout is Str(text) for text that is not JSON and a stored JSON text
\* otherwise; parsed is what executePowerShell computes from it
Parsed(stdout) ==
    IF stdout.t = "j" THEN JsonParse(stdout)
    ELSE IF Trim(stdout.v) # "" THEN Str(Trim(stdout.v))
    ELSE Null

PsResult(outcome) ==
    [stdout |-> outcome.stdout, stderr |-> outcome.stderr,
     exitCode |-> outcome.exitCode, parsed |-> Parsed(outcome.stdout)]

\* the row executePowerShell inserts into powershell_executions
AuditRow(cmdlet, params, outcome, scimUserId) ==
    [cmdlet |-> cmdlet,
     parameters |-> JsonStringify(Obj(sanitizeParams(params))),
     stdout |-> IF outcome.stdout.t = "s"
                THEN Str(Substring0(outcome.stdout.v, StdioMaxLen)) ELSE outcome.stdout,
     stderr |-> Substring0(outcome.stderr, StdioMaxLen),
     exit_code |-> outcome.exitCode,
     scim_user_id |-> scimUserId,
     id |-> 0]

\* variant of the audit write that keeps the row of the last run only
LoggedOverwriting(a, row) == IF a.on THEN [a EXCEPT !.rows = SetToBag({row})] ELSE a

\* db('powershell_executions').insert(row): the table is a bag of rows.
\* The table is write-only, so its content never influences the cache or a
\* reply: Spec projects it away (on = FALSE), SpecAudit keeps it.
\* t.increments('id'): the row's id is the number of rows so far plus one.
\* No code reads the table back, so the id is projected away (left 0)
\* except where the order of the runs is what is observed (ids = TRUE).
Logged(a, row) ==
    IF ~a.on THEN a
    ELSE [a EXCEPT !.rows =
             @ (+) SetToBag({IF a.ids
                             THEN [row EXCEPT !.id = BagCardinality(a.rows) + 1]
                             ELSE row})]

\* whether the insert of an audit row is written: always, unless the table
\* rejects inserts, and then the row may be lost
AuditWrites(a) == IF a.rejects THEN BOOLEAN ELSE {TRUE}

\* the insert is issued without await; .catch(...) logs a rejection
AuditInsert(a, row, written) == IF written THEN Logged(a, row) ELSE a

\* variant of executePowerShell in which a rejected audit insert replaces
\* the result of the run
ResultLostWithAuditRow(outcome, written) ==
    IF written THEN PsResult(outcome)
    ELSE [stdout |-> Str(""), stderr |-> "", exitCode |-> -1, parsed |-> Null]

\* what executePowerShell returns: { stdout, stderr, exitCode, parsed } of
\* the run, whatever becomes of the audit insert
ExecResult(outcome, written) == PsResult(outcome)

\* execNewAdUser: the parameters it hands to the audit log
NewAdUserLogParams(params) ==
    LET rest == Without(params, {"AccountPassword", "Name", "Path", "SamAccountName"})
    IN sanitizeParams(Spread(("Name" :> Get(params, "Name"))
                             @@ ("Path" :> Get(params, "Path"))
                             @@ ("SamAccountName" :> Get(params, "SamAccountName")),
                             rest))

\* execSetAdUser: { identity, ...params }
SetAdUserLogParams(identity, params) == Spread(("identity" :> identity), params)

\* execRemoveAdUser / execGetAdUser: { identity }
IdentityLogParams(identity) == ("identity" :> identity)

\* extractObjectGuid(parsed): Null or a Str
extractObjectGuid(parsed) ==
    IF parsed.t # "o" THEN Null
    ELSE LET raw == Get(parsed.v, "ObjectGUID")
         IN IF raw.t = "s" /\ Len(raw.v) > 0 THEN raw
            ELSE IF raw.t = "o" /\ Get(raw.v, "value").t = "s" THEN Get(raw.v, "value")
            ELSE Null

\* configuration (src/unnamed/part_001): AD_BASE_OU, AD_DEFAULT_PASSWORD
BaseOu == Str("OU=Users,DC=ex,DC=com")
DefaultPassword == Str("P@ssw0rd!")

-----------------------------------------------------------------------------
(* Inputs and directory outcomes the model draws from.                     *)

\* a stderr of 17 + 2048 characters, longer than last_error holds
Twice(s) == s \o s
LongStderr ==
    "Access is denied." \o
    Twice(Twice(Twice(Twice(Twice(Twice(Twice(Twice(Twice(Twice(Twice(".")))))))))))

Stderrs == {LongStderr, "Cannot find an object with identity: 'x'."}

\* the phrases the error classifier looks for
Phrases ==
    {"already exists", "already in use", "cannot find an object with identity",
     "not found", "no such object", "password", "complexity", "length", "requirement",
     "access", "denied", "invalid", "bad request"}

\* error texts in upper and mixed case, and texts in which more than two
\* phrases meet
MixedStderrs ==
    {"The object ALREADY EXISTS.", "Access Is Denied", "Bad Request", "No Such Object",
     "INVALID", "The PASSWORD does not meet the LENGTH Requirement",
     "password length access denied", "access denied invalid",
     "invalid access denied password complexity not found already in use",
     "The server is not operational"}

\* the error texts the classifier is exercised with: every phrase, every
\* ordered pair of phrases, and the texts above
ClassifierStderrs ==
    Phrases \cup {a \o " " \o b : a \in Phrases, b \in Phrases} \cup MixedStderrs

Ok(stdout) == [stdout |-> stdout, stderr |-> "", exitCode |-> 0]
Failed(stderr) == [stdout |-> Str(""), stderr |-> stderr, exitCode |-> 1]
\* the 30 s timeout of execFile kills the process: the rejection carries
\* code null (not a number, so exitCode = 1) and the empty output so far
TimedOut == [stdout |-> Str(""), stderr |-> "", exitCode |-> 1]

\* the GUID the directory gives the account it creates for the SCIM id
GuidOf(id) == Str("guid-" \o id)

NewAdUserOutcomes(id) ==
    {Ok(JsonStringify(Obj(("ObjectGUID" :> GuidOf(id))))),
     Ok(JsonStringify(Obj(("ObjectGUID" :> Obj(("value" :> GuidOf(id))))))),
     Ok(Str("")), TimedOut}
    \cup {Failed(e) : e \in Stderrs}

CommandOutcomes == {Ok(Str("")), TimedOut} \cup {Failed(e) : e \in Stderrs}

GetAdUserOutcomes(identity) ==
    {Ok(JsonStringify(Obj(("DistinguishedName" :> identity) @@ ("Enabled" :> Bool(TRUE))))),
     Ok(Str("")), TimedOut,
     Failed("Cannot find an object with identity: 'x'.")}

\* the outcomes of the directory commands of concurrent requests: each
\* command succeeds or fails in one way
RaceNewAdUserOutcomes(id) ==
    {Ok(JsonStringify(Obj(("ObjectGUID" :> GuidOf(id))))), Ok(Str(""))}
RaceCommandOutcomes == {Ok(Str("")), Failed("Cannot find an object with identity: 'x'.")}
RaceGetOutcomes(identity) ==
    {Ok(JsonStringify(Obj(("DistinguishedName" :> identity) @@ ("Enabled" :> Bool(TRUE))))),
     TimedOut}

\* mapPsErrorToScim, AlreadyGone and the last_error truncation, tabulated
\* once over the stderrs the directory can produce
StderrTable ==
    [e \in Stderrs \cup ClassifierStderrs \cup {""} |->
        [scim |-> mapPsErrorToScim(e),
         gone |-> \/ Includes(ToLowerCase(e), "cannot find")
                  \/ Includes(ToLowerCase(e), "not found"),
         head |-> Substring0(e, LastErrorMaxLen)]]

\* request bodies of POST and PUT
\* the part of UserAl's userName before the '@' has 23 characters
UserAl == ("userName" :> Str("alexander.the.great.iii@x")) @@ ("externalId" :> Str("a"))
          @@ ("id" :> Str("zz")) @@ ("active" :> Bool(TRUE))
UserBo == ("userName" :> Str("bo")) @@ ("displayName" :> Str("Bo"))
UserAt == ("userName" :> Str("@x"))
UserNoName == ("active" :> Bool(FALSE))
\* a body whose externalId is the empty string
UserCy == ("userName" :> Str("cy")) @@ ("externalId" :> Str(""))
\* the bodies of POST /Users
CreateBodies == {UserAl, UserBo, UserAt, UserNoName, UserCy}
\* the bodies of PUT /Users/:id
ReplaceBodies == {UserAl, UserNoName}

\* Operations of PATCH bodies
PatchOp(op, path, x) == [op |-> op, path |-> path, value |-> x]
OpsEmpty == <<>>
OpsActive == <<PatchOp("replace", Str("active"), Bool(FALSE))>>
OpsId == <<PatchOp("Replace", Str("id"), Str("zz"))>>
OpsUserName == <<PatchOp("add", Undef, Obj(("userName" :> Str("bo@x"))))>>
OperationLists == {OpsEmpty, OpsActive, OpsId, OpsUserName}

\* bodies with a name and e-mail addresses: one primary, none primary
UserDi ==
    ("userName" :> Str("di"))
    @@ ("name" :> Obj(("givenName" :> Str("Di")) @@ ("familyName" :> Str("Day"))))
    @@ ("emails" :> Arr(<<Obj(("value" :> Str("di@work")) @@ ("type" :> Str("work"))
                              @@ ("primary" :> Bool(TRUE))),
                          Obj(("value" :> Str("di@home")) @@ ("type" :> Str("home")))>>))
UserEd ==
    ("userName" :> Str("ed"))
    @@ ("emails" :> Arr(<<Obj(("value" :> Str("ed@work")) @@ ("type" :> Str("work")))>>))
RichBodies == {UserBo, UserDi, UserEd}

\* the paths of the wide operations, each with the value it is given
PathValues ==
    {<<"active", Bool(FALSE)>>, <<"displayName", Str("D")>>,
     <<"name.givenName", Str("G")>>, <<"name.middleName", Str("M")>>,
     <<"emails[type eq \"work\"].value", Str("w@x")>>,
     <<"emails[primary eq true].value", Str("p@x")>>,
     <<"emails[type eq \"other\"].value", Str("o@x")>>,
     <<"emails[type eq \"work\"]", Obj(("value" :> Str("w2@x")))>>}

\* one operation per verb and path, bulk operations without a path, and
\* lists of two operations on the same attribute
WideOperationLists ==
    {<<PatchOp(verb, Str(pv[1]), pv[2])>> : verb \in {"replace", "add"}, pv \in PathValues}
    \cup {<<PatchOp("remove", Str(pv[1]), Undef)>> : pv \in PathValues}
    \cup {<<PatchOp(verb, Undef, Obj(("displayName" :> Str("D"))))>> :
              verb \in {"replace", "add"}}
    \cup {<<PatchOp("remove", Str("emails[type eq \"home\"]"), Undef),
             PatchOp("replace", Str("emails[type eq \"work\"].value"), Str("w@x"))>>,
           <<PatchOp("replace", Str("name"), Obj(("givenName" :> Str("N")))),
             PatchOp("replace", Str("name.givenName"), Str("G"))>>}

\* bodies and operations of requests that run concurrently on the row
\* created from UserBo: two replaces that differ in displayName, a patch of
\* displayName and a patch of active
UserBo2 == ("userName" :> Str("bo")) @@ ("displayName" :> Str("B2"))
UserBo3 == ("userName" :> Str("bo")) @@ ("displayName" :> Str("B3"))
RaceBodies == {UserBo2, UserBo3}
RaceOperationLists ==
    {<<PatchOp("replace", Str("displayName"), Str("P"))>>, OpsActive}

\* the Operations member of PATCH bodies: absent, not an array, an array
OpsMissing == Undef
OpsNotList == Str("replace")
PatchOperations == {OpsMissing, OpsNotList} \cup {Arr(ops) : ops \in OperationLists}

\* query strings of GET /Users
Query(filter, startIndex, count) ==
    ("filter" :> filter) @@ ("startIndex" :> startIndex) @@ ("count" :> count)

\* the queries of the request processor: none, and the second page of one
\* row of a filtered list
ListQueries ==
    {Query(Undef, Undef, Undef), Query(Str("userName eq \"bo\""), Str("2"), Str("1"))}

\* filters: absent, empty, supported (in several spellings), and unsupported
\* (other operators, compound and negated expressions, other attributes, a
\* value without quotes, an operator without a space before the value)
SupportedFilters ==
    {"userName eq \"bo\"", "userName eq \"alexander.the.great.\"", "userName eq \"bo@x\"",
     "USERNAME EQ \"bo\"", "  userName   eq   \"cy\"  ", "id eq \"a\"",
     "externalId eq \"a\"", "externalId eq \"\"", "id eq \"uuid-1\"", "userName eq \"BO\""}
UnsupportedFilters ==
    {"userName co \"b\"", "userName ne \"bo\"", "userName sw \"b\"", "userName pr \"\"",
     "not (userName eq \"bo\")", "userName eq \"bo\" and id eq \"a\"",
     "userName eq \"bo\" or userName eq \"cy\"", "emails.value eq \"bo\"",
     "displayName eq \"Bo\"", "name.familyName eq \"bo\"",
     "urn:ietf:params:scim:schemas:extension:enterprise:2.0:User:department eq \"x\"",
     "userName eq bo", "userName eq\"bo\"", "userName"}
ListFilters ==
    {Undef, Str("")} \cup {Str(f) : f \in SupportedFilters \cup UnsupportedFilters}

\* the integers startIndex and count are given as
StartIndexInts == {-1, 0, 1, 2, 3, 4}
CountInts == {-1, 0, 1, 2, 200, 201, 500}
Number(n) == Str(ToString(n))

\* every filter with the default page, and every startIndex and count
\* without a filter and with one
WideListQueries ==
    {Query(f, Undef, Undef) : f \in ListFilters}
    \cup {Query(f, s, c) : f \in {Undef, Str("userName eq \"bo\"")},
                           s \in {Undef} \cup {Number(n) : n \in StartIndexInts},
                           c \in {Undef} \cup {Number(n) : n \in CountInts}}

\* uuidv4(): a value that no row and no request in flight holds
Uuid(k) == "uuid-" \o ToString(k)
FreshUuid ==
    LET used(k) == Uuid(k) \in DOMAIN cache \/ \E r \in Slots : req[r].id = Uuid(k)
    IN Str(Uuid(CHOOSE k \in 1..(MaxRequests + 1) :
                    ~used(k) /\ \A j \in 1..(k - 1) : used(j)))

\* the ids the requests address: the rows that exist and one more.  The
\* routes of one user are registered as '/:id', which an empty path segment
\* does not match, so no request addresses the id "".
RequestIds == (DOMAIN cache \cup {"a"}) \ {""}

-----------------------------------------------------------------------------
(* The request processor (src/src/routes/scim/users.ts).  req[r] holds the *)
(* local variables of the handler running in slot r and its position.      *)

Idle ==
    [op |-> "idle", pc |-> "idle", id |-> "", body |-> EmptyObj, ops |-> Undef,
     row |-> <<>>, identity |-> Null, objectGuid |-> Null, adUser |-> Null,
     exitCode |-> 0, stderr |-> "", query |-> EmptyObj, startIndex |-> 0,
     pageSize |-> 0, total |-> 0, reply |-> NoReply]

\* the handler of slot r answers
Done(q, reply) == [q EXCEPT !.pc = "done", !.reply = reply]

\* formatError(404, `User ${id} not found.`, 'noTarget')
NotFoundReply(id) == formatError(404, "User " \o id \o " not found.", "noTarget")

\* The reply of a handler is sent in the step that completes it; the slot
\* is released (Finish) before anything else happens, so that a reply is
\* observable in exactly one state.
NoneDone == \A r \in Slots : req[r].pc # "done"

\* a request arrives and takes the first free slot
CanStart(r) ==
    /\ NoneDone
    /\ req[r].pc = "idle"
    /\ \A r2 \in 1..(r - 1) : req[r2].pc # "idle"
    /\ remaining > 0

\* slot r is at position pc of the handler of op
At(r, op, pc) == NoneDone /\ req[r].op = op /\ req[r].pc = pc
\* slot r is at position pc of a handler
AtPc(r, pc) == NoneDone /\ req[r].pc = pc

\* the handler returns
Finish(r) ==
    /\ req[r].pc = "done"
    /\ req' = [req EXCEPT ![r] = Idle]
    /\ UNCHANGED <<cache, audit, remaining>>

Fresh(op, id) == [Idle EXCEPT !.op = op, !.id = id]

\* const identity = row.ad_object_guid ?? row.sam_account_name
IdentityOf(row) == Coalesce(row.ad_object_guid, row.sam_account_name)

Init ==
    /\ cache = [i \in {} |-> Idle]
    /\ audit = [on |-> FALSE, rejects |-> FALSE, ids |-> FALSE,
               rows |-> EmptyBag]
    /\ req = [r \in Slots |-> Idle]
    /\ remaining = MaxRequests

InitAudit ==
    /\ cache = [i \in {} |-> Idle]
    /\ audit = [on |-> TRUE, rejects |-> FALSE, ids |-> FALSE,
               rows |-> EmptyBag]
    /\ req = [r \in Slots |-> Idle]
    /\ remaining = MaxAuditRequests

\* the audit table may reject an insert (a locked or full database)
InitAuditFail ==
    /\ cache = [i \in {} |-> Idle]
    /\ audit = [on |-> TRUE, rejects |-> TRUE, ids |-> FALSE,
               rows |-> EmptyBag]
    /\ req = [r \in Slots |-> Idle]
    /\ remaining = MaxAuditRequests

\* ---- GET /:id ----

\* variant of the GET /:id reply that never finds the row
GetReplyNeverFound(c, id) == NotFoundReply(id)

\* the reply of the GET /:id handler for the cache c
GetReply(c, id) ==
    IF FindById(c, id) = <<>>
    THEN NotFoundReply(id)
    ELSE UserReply(200, FindById(c, id)[1])

GetUser(r) ==
    /\ CanStart(r)
    /\ \E id \in RequestIds :
          req' = [req EXCEPT ![r] = Done(Fresh("get", id), GetReply(cache, id))]
    /\ remaining' = remaining - 1
    /\ UNCHANGED <<cache, audit>>

\* ---- GET / ----

\* reply.status(200).send(formatListResponse(users, Number(total), startIndex))
ListReply(rows, total, startIndex) ==
    [kind |-> "list", status |-> 200, scimType |-> NoScimType, detail |-> "",
     user |-> EmptyObj, location |-> "",
     list |-> formatListResponse([k \in DOMAIN rows |-> formatScimUser(rows[k])],
                                 total, startIndex)]

\* the numbers and the predicate of the query, and await countQuery.count(...)
ListStartFrom(r, queries) ==
    /\ CanStart(r)
    /\ \E query \in queries :
          req' = [req EXCEPT ![r] =
                [Fresh("list", "") EXCEPT
                    !.pc = "select",
                    !.query = query,
                    !.startIndex = ListStartIndex(query),
                    !.pageSize = ListPageSize(query),
                    !.total = CountRows(cache, ListWhere(query))]]
    /\ remaining' = remaining - 1
    /\ UNCHANGED <<cache, audit>>

ListStart(r) == ListStartFrom(r, ListQueries)

\* the same step for every query of WideListQueries
ListStartWide(r) == ListStartFrom(r, WideListQueries)

\* await query.orderBy(...).offset(...).limit(...).select(), and the reply
ListSelect(r) ==
    /\ At(r, "list", "select")
    /\ LET q == req[r]
       IN req' = [req EXCEPT ![r] =
             Done(q, ListReply(SelectRows(cache, ListWhere(q.query), q.startIndex,
                                          q.pageSize),
                               q.total, q.startIndex))]
    /\ UNCHANGED <<cache, audit, remaining>>

\* ---- POST / ----

\* variant of the id choice that always generates a UUID
CreateUserIdAlwaysUuid(body, uuid) == uuid.v

\* const userId = scimUser.externalId ?? uuidv4()
CreateUserId(body, uuid) == Coalesce(Get(body, "externalId"), uuid).v

\* const scimResource = { ...scimUser, id: userId }
CreateScimResource(body, userId) == Spread(body, ("id" :> Str(userId)))

\* the parameters the create handler gives execNewAdUser
CreateAdParams(body) ==
    With(scimToAdParams(body, BaseOu), "AccountPassword", DefaultPassword)

\* variant of the pre-check that finds no row
NoDuplicate(c, userName) == FALSE

\* const duplicate = await db('scim_users').where({ sam_account_name:
\*     scimUser.userName.split('@')[0].substring(0, 20) }).first()
Duplicate(c, userName) == ExistsBySam(c, SamOf(userName))

\* validation and the duplicate pre-check, for a body of bodies
CreateStartFrom(r, bodies) ==
    /\ CanStart(r)
    /\ \E body \in bodies :
          LET q == [Fresh("create", "") EXCEPT !.body = body]
              userName == Get(body, "userName")
          IN req' = [req EXCEPT ![r] =
                IF ~Truthy(userName)
                THEN Done(q, formatError(400, "userName is required.", "invalidValue"))
                ELSE IF Duplicate(cache, userName.v)
                THEN Done(q, formatError(409, "A user with userName '" \o userName.v
                                              \o "' already exists.", "uniqueness"))
                ELSE [q EXCEPT !.pc = "newAdUser", !.id = CreateUserId(body, FreshUuid)]]
    /\ remaining' = remaining - 1
    /\ UNCHANGED <<cache, audit>>

CreateStart(r) == CreateStartFrom(r, CreateBodies)

\* the same step for the bodies with name and emails
CreateStartRich(r) == CreateStartFrom(r, RichBodies)

\* the handler q holds the result of its directory command
WithResult(q, psResult) ==
    [q EXCEPT !.exitCode = psResult.exitCode, !.stderr = psResult.stderr]

\* the reply for the classified stderr of a failed directory command
ClassifiedReply(stderr) ==
    formatError(StderrTable[stderr].scim.status, StderrTable[stderr].scim.detail,
                StderrTable[stderr].scim.scimType)

\* variant of the create handler that ignores the exit code
CreateIgnoringExitCode(q, psResult) ==
    [WithResult(q, psResult) EXCEPT
        !.pc = "insert", !.objectGuid = extractObjectGuid(psResult.parsed)]

\* if (psResult.exitCode !== 0) return the classified error; else go on to
\* extractObjectGuid and the insert
CreateAfterNewAdUser(q, psResult) ==
    IF psResult.exitCode # 0
    THEN Done(WithResult(q, psResult), ClassifiedReply(psResult.stderr))
    ELSE [WithResult(q, psResult) EXCEPT
             !.pc = "insert", !.objectGuid = extractObjectGuid(psResult.parsed)]

\* await execNewAdUser(...), and the classification of a nonzero exit; the
\* directory answers with one of outcomes
CreateNewAdUserFrom(r, outcomes) ==
    /\ At(r, "create", "newAdUser")
    /\ \E outcome \in outcomes, written \in AuditWrites(audit) :
          /\ audit' = AuditInsert(audit, AuditRow("New-ADUser",
                                 NewAdUserLogParams(CreateAdParams(req[r].body)), outcome,
                                 Str(req[r].id)), written)
          /\ req' = [req EXCEPT ![r] =
                CreateAfterNewAdUser(req[r], ExecResult(outcome, written))]
    /\ UNCHANGED <<cache, remaining>>

CreateNewAdUser(r) == CreateNewAdUserFrom(r, NewAdUserOutcomes(req[r].id))

\* the same step with the directory creating the account, with or without
\* a GUID in its answer
CreateNewAdUserRace(r) == CreateNewAdUserFrom(r, RaceNewAdUserOutcomes(req[r].id))

\* the same step with the directory failing in every way of ClassifierStderrs
CreateNewAdUserWide(r) ==
    CreateNewAdUserFrom(r, NewAdUserOutcomes(req[r].id)
                           \cup {Failed(e) : e \in ClassifierStderrs})

\* the row the create handler inserts
CreateRow(q, ts) ==
    NewRow(q.id, Str(SamOf(Get(q.body, "userName").v)),
           CreateScimResource(q.body, q.id), Coalesce(q.objectGuid, Null), ts)

\* await db('scim_users').insert({...}); a constraint violation is thrown
\* and nothing in the handler catches it
CreateInsert(r) ==
    /\ At(r, "create", "insert")
    /\ LET q == req[r]
           row == CreateRow(q, now(cache))
       IN IF InsertOk(cache, row)
          THEN /\ cache' = Insert(cache, row)
               /\ req' = [req EXCEPT ![r] =
                     IF Truthy(q.objectGuid)
                     THEN [q EXCEPT !.pc = "refreshGet", !.identity = q.objectGuid]
                     ELSE [q EXCEPT !.pc = "reread"]]
          ELSE /\ cache' = cache
               /\ req' = [req EXCEPT ![r] = Done(q, Unhandled("SQLITE_CONSTRAINT"))]
    /\ UNCHANGED <<audit, remaining>>

\* ---- refreshAdResource ----

\* const adUser = result.exitCode === 0 && result.parsed ? result.parsed : null;
\* if (adUser) the write of ad_resource follows
AfterGetAdUser(q, result) ==
    LET adUser == IF result.exitCode # 0 \/ ~Truthy(result.parsed)
                  THEN Null ELSE result.parsed
    IN IF Truthy(adUser)
       THEN [q EXCEPT !.pc = "refreshWrite", !.adUser = adUser]
       ELSE [q EXCEPT !.pc = "reread"]

\* await execGetAdUser(identity, scimUserId)
RefreshGetFrom(r, outcomes) ==
    /\ AtPc(r, "refreshGet")
    /\ \E outcome \in outcomes, written \in AuditWrites(audit) :
          LET q == req[r]
          IN /\ audit' = AuditInsert(audit, AuditRow("Get-ADUser",
                                    IdentityLogParams(q.identity), outcome, Str(q.id)),
                                    written)
             /\ req' = [req EXCEPT ![r] = AfterGetAdUser(q, ExecResult(outcome, written))]
    /\ UNCHANGED <<cache, remaining>>

RefreshGet(r) == RefreshGetFrom(r, GetAdUserOutcomes(req[r].identity))

\* the same step with the read-back answering or timing out
RefreshGetRace(r) == RefreshGetFrom(r, RaceGetOutcomes(req[r].identity))

\* variant of the refresh write that also takes the GUID from the read-back
RefreshFieldsWithGuid(adUser) ==
    ("ad_resource" :> JsonStringify(adUser))
    @@ ("ad_object_guid" :> extractObjectGuid(adUser))

\* the columns refreshAdResource writes
RefreshFields(adUser) == ("ad_resource" :> JsonStringify(adUser))

\* variant of the catch block that fails the caller
RefreshRethrown(q) == Done(q, Unhandled("refresh failed"))

\* catch (err) { server.log.warn(...) }: the handler goes on
RefreshSwallowed(q) == [q EXCEPT !.pc = "reread", !.adUser = Null]

\* await db('scim_users').where({ id }).update({ ad_resource, updated_at });
\* the update may reject, which the catch of refreshAdResource swallows
RefreshWrite(r) ==
    /\ AtPc(r, "refreshWrite")
    /\ \E written \in BOOLEAN :
          IF written
          THEN /\ cache' = Update(cache, req[r].id, RefreshFields(req[r].adUser))
               /\ req' = [req EXCEPT ![r] =
                     [req[r] EXCEPT !.pc = "reread", !.adUser = Null]]
          ELSE /\ cache' = cache
               /\ req' = [req EXCEPT ![r] = RefreshSwallowed(req[r])]
    /\ UNCHANGED <<audit, remaining>>

\* the final db('scim_users').where({ id }).first() and the reply;
\* formatScimUser(undefined) throws when the row is gone
Reread(r) ==
    /\ AtPc(r, "reread")
    /\ LET q == req[r]
           found == FindById(cache, q.id)
       IN req' = [req EXCEPT ![r] =
             IF found = <<>>
             THEN Done(q, Unhandled("TypeError"))
             ELSE IF q.op = "create"
             THEN Done(q, CreatedReply(found[1], q.id))
             ELSE Done(q, UserReply(200, found[1]))]
    /\ UNCHANGED <<cache, audit, remaining>>

\* ---- PUT /:id ----

\* variant of the pending write that spreads the body over the id
ReplacePendingFieldsBodyIdWins(body, id, row) ==
    ("scim_resource" :> JsonStringify(Obj(Spread(("id" :> Str(id)), body))))
    @@ ("sam_account_name" :>
            IF Truthy(Get(body, "userName"))
            THEN Str(SamOf(Get(body, "userName").v))
            ELSE row.sam_account_name)
    @@ ("sync_status" :> "pending")

\* the columns the replace handler writes before the directory call
ReplacePendingFields(body, id, row) ==
    ("scim_resource" :> JsonStringify(Obj(Spread(body, ("id" :> Str(id))))))
    @@ ("sam_account_name" :>
            IF Truthy(Get(body, "userName"))
            THEN Str(SamOf(Get(body, "userName").v))
            ELSE row.sam_account_name)
    @@ ("sync_status" :> "pending")

\* variant of the error write that stores the whole stderr
ErrorFieldsUntruncated(stderr) ==
    ("sync_status" :> "error") @@ ("last_error" :> Str(stderr))

\* the columns written when the directory update exits nonzero
ErrorFields(stderr) ==
    ("sync_status" :> "error")
    @@ ("last_error" :> Str(StderrTable[stderr].head))

\* variants of the synced write: one that leaves last_error as it is, one
\* that leaves sync_status as it is
SyncedFieldsKeepingError == ("sync_status" :> "synced")
SyncedFieldsKeepingStatus == ("last_error" :> Null)

\* the columns written when the directory update succeeded
SyncedFields == ("sync_status" :> "synced") @@ ("last_error" :> Null)

NoIdentityReply ==
    formatError(500, "Cannot identify AD account: no objectGUID or samAccountName.",
                NoScimType)

\* the first cache lookup
ReplaceStartFrom(r, bodies) ==
    /\ CanStart(r)
    /\ \E id \in RequestIds, body \in bodies :
          LET q == [Fresh("replace", id) EXCEPT !.body = body]
              found == FindById(cache, id)
          IN req' = [req EXCEPT ![r] =
                IF found = <<>>
                THEN Done(q, NotFoundReply(id))
                ELSE [q EXCEPT !.pc = "writePending", !.row = found]]
    /\ remaining' = remaining - 1
    /\ UNCHANGED <<cache, audit>>

ReplaceStart(r) == ReplaceStartFrom(r, ReplaceBodies)

\* the same step for the bodies of the concurrent replaces
ReplaceStartRace(r) == ReplaceStartFrom(r, RaceBodies)

\* the pending write, then the identity check
ReplaceWritePending(r) ==
    /\ At(r, "replace", "writePending")
    /\ LET q == req[r]
           row == q.row[1]
           fields == ReplacePendingFields(q.body, q.id, row)
           identity == IdentityOf(row)
       IN IF UpdateOk(cache, q.id, fields)
          THEN /\ cache' = Update(cache, q.id, fields)
               /\ req' = [req EXCEPT ![r] =
                     IF ~Truthy(identity)
                     THEN Done(q, NoIdentityReply)
                     ELSE [q EXCEPT !.pc = "setAdUser", !.identity = identity]]
          ELSE /\ cache' = cache
               /\ req' = [req EXCEPT ![r] = Done(q, Unhandled("SQLITE_CONSTRAINT"))]
    /\ UNCHANGED <<audit, remaining>>

\* the parameters the replace handler gives execSetAdUser
ReplaceSetParams(body) == StripNamePath(scimToAdParams(body, Undef))

\* if (psResult.exitCode !== 0) the error write, else the synced write
AfterSetAdUser(q, psResult) ==
    IF psResult.exitCode # 0
    THEN [WithResult(q, psResult) EXCEPT !.pc = "writeError"]
    ELSE [WithResult(q, psResult) EXCEPT !.pc = "writeSynced"]

\* await execSetAdUser(identity, setParams, id)
SetAdUserFrom(r, setParams, outcomes) ==
    /\ AtPc(r, "setAdUser")
    /\ \E outcome \in outcomes, written \in AuditWrites(audit) :
          LET q == req[r]
          IN /\ audit' = AuditInsert(audit, AuditRow("Set-ADUser",
                                    SetAdUserLogParams(q.identity, setParams), outcome,
                                    Str(q.id)), written)
             /\ req' = [req EXCEPT ![r] = AfterSetAdUser(q, ExecResult(outcome, written))]
    /\ UNCHANGED <<cache, remaining>>

SetAdUser(r, setParams) == SetAdUserFrom(r, setParams, CommandOutcomes)

ReplaceSetAdUser(r) ==
    /\ req[r].op = "replace"
    /\ SetAdUser(r, ReplaceSetParams(req[r].body))

\* the same step with the directory accepting the command or not finding
\* the account
ReplaceSetAdUserRace(r) ==
    /\ req[r].op = "replace"
    /\ SetAdUserFrom(r, ReplaceSetParams(req[r].body), RaceCommandOutcomes)

\* the error write and the classified reply (replace and patch alike)
WriteError(r) ==
    /\ AtPc(r, "writeError")
    /\ LET q == req[r]
       IN /\ cache' = Update(cache, q.id, ErrorFields(q.stderr))
          /\ req' = [req EXCEPT ![r] = Done(q, ClassifiedReply(q.stderr))]
    /\ UNCHANGED <<audit, remaining>>

\* the synced write (replace and patch alike), then refreshAdResource
WriteSynced(r) ==
    /\ AtPc(r, "writeSynced")
    /\ cache' = Update(cache, req[r].id, SyncedFields)
    /\ req' = [req EXCEPT ![r] = [req[r] EXCEPT !.pc = "refreshGet"]]
    /\ UNCHANGED <<audit, remaining>>

\* ---- PATCH /:id ----

\* the columns the patch handler writes before the directory call
PatchPendingFields(patchedResource, id) ==
    ("scim_resource" :> JsonStringify(Obj(Spread(patchedResource, ("id" :> Str(id))))))
    @@ ("sync_status" :> "pending")

\* variant of the patch parameters that keeps Name and Path
PatchSetParamsUnstripped(changedFields) == scimToAdParams(changedFields, Undef)

\* the parameters the patch handler gives execSetAdUser
PatchSetParams(changedFields) == StripNamePath(scimToAdParams(changedFields, Undef))

\* Array.isArray(x)
IsArray(x) == x.t = "l"

\* variant of the validation that lets an empty array through
OperationsNotArray(operations) == ~IsArray(operations)

\* !Array.isArray(patchBody.Operations) || patchBody.Operations.length === 0
OperationsInvalid(operations) ==
    ~IsArray(operations) \/ Len(operations.v) = 0

\* validation of Operations and the first cache lookup, for Operations of
\* operationsSet
PatchStartFrom(r, operationsSet) ==
    /\ CanStart(r)
    /\ \E id \in RequestIds, operations \in operationsSet :
          LET q == [Fresh("patch", id) EXCEPT !.ops = operations]
              found == FindById(cache, id)
          IN req' = [req EXCEPT ![r] =
                IF OperationsInvalid(operations)
                THEN Done(q, formatError(400,
                             "Operations array is required and must not be empty.",
                             "invalidValue"))
                ELSE IF found = <<>>
                THEN Done(q, NotFoundReply(id))
                ELSE [q EXCEPT !.pc = "writePending", !.row = found]]
    /\ remaining' = remaining - 1
    /\ UNCHANGED <<cache, audit>>

PatchStart(r) == PatchStartFrom(r, PatchOperations)

\* the same step for the operations on simple, dotted and multi-valued paths
PatchStartWide(r) == PatchStartFrom(r, {Arr(ops) : ops \in WideOperationLists})

\* the same step for the operations of the concurrent patches
PatchStartRace(r) == PatchStartFrom(r, {Arr(ops) : ops \in RaceOperationLists})

\* applyPatchOps on the stored view, the pending write, the identity check,
\* and the decision whether anything is sent to the directory
PatchWritePending(r) ==
    /\ At(r, "patch", "writePending")
    /\ LET q == req[r]
           row == q.row[1]
           patched == applyPatchOps(JsonParse(row.scim_resource).v, q.ops.v)
           identity == IdentityOf(row)
           setParams == PatchSetParams(patched.changedFields)
       IN IF patched.threw
          THEN /\ cache' = cache
               /\ req' = [req EXCEPT ![r] = Done(q, Unhandled("TypeError"))]
          ELSE /\ cache' = Update(cache, q.id, PatchPendingFields(patched.updated, q.id))
               /\ req' = [req EXCEPT ![r] =
                     IF ~Truthy(identity)
                     THEN Done(q, NoIdentityReply)
                     ELSE IF DOMAIN setParams # {}
                     THEN [q EXCEPT !.pc = "setAdUser", !.identity = identity]
                     ELSE [q EXCEPT !.pc = "writeSynced", !.identity = identity]]
    /\ UNCHANGED <<audit, remaining>>

\* changedFields is recomputed from the snapshot and the operations, which
\* the handler holds unchanged across the await
PatchSetAdUser(r) ==
    /\ req[r].op = "patch"
    /\ SetAdUser(r, PatchSetParams(
            applyPatchOps(JsonParse(req[r].row[1].scim_resource).v,
                          req[r].ops.v).changedFields))

PatchSetAdUserRace(r) ==
    /\ req[r].op = "patch"
    /\ SetAdUserFrom(r, PatchSetParams(
            applyPatchOps(JsonParse(req[r].row[1].scim_resource).v,
                          req[r].ops.v).changedFields), RaceCommandOutcomes)

\* ---- DELETE /:id ----

\* variants of the already-gone test: every failure counts, none does
AlwaysGone(stderr) == TRUE
NeverGone(stderr) == FALSE

\* the stderr of a failed Remove-ADUser says the account is already gone
AlreadyGone(stderr) == StderrTable[stderr].gone

\* the cache lookup and the identity
DeleteStart(r) ==
    /\ CanStart(r)
    /\ \E id \in RequestIds :
          LET q == Fresh("delete", id)
              found == FindById(cache, id)
          IN req' = [req EXCEPT ![r] =
                IF found = <<>>
                THEN Done(q, NotFoundReply(id))
                ELSE IF Truthy(IdentityOf(found[1]))
                THEN [q EXCEPT !.pc = "removeAdUser", !.row = found,
                               !.identity = IdentityOf(found[1])]
                ELSE [q EXCEPT !.pc = "deleteRow", !.row = found]]
    /\ remaining' = remaining - 1
    /\ UNCHANGED <<cache, audit>>

\* a failure that does not say the account is gone is answered; otherwise
\* the handler goes on to delete the row
AfterRemoveAdUser(q, psResult) ==
    IF psResult.exitCode # 0 /\ ~AlreadyGone(psResult.stderr)
    THEN Done(WithResult(q, psResult), ClassifiedReply(psResult.stderr))
    ELSE [WithResult(q, psResult) EXCEPT !.pc = "deleteRow"]

\* await execRemoveAdUser(identity, id)
DeleteRemoveAdUser(r) ==
    /\ At(r, "delete", "removeAdUser")
    /\ \E outcome \in CommandOutcomes, written \in AuditWrites(audit) :
          LET q == req[r]
          IN /\ audit' = AuditInsert(audit, AuditRow("Remove-ADUser",
                                    IdentityLogParams(q.identity), outcome, Str(q.id)),
                                    written)
             /\ req' = [req EXCEPT ![r] =
                   AfterRemoveAdUser(q, ExecResult(outcome, written))]
    /\ UNCHANGED <<cache, remaining>>

\* await db('scim_users').where({ id }).delete(), then 204
DeleteRow(r) ==
    /\ At(r, "delete", "deleteRow")
    /\ cache' = Delete(cache, req[r].id)
    /\ req' = [req EXCEPT ![r] = Done(req[r], EmptyReply(204))]
    /\ UNCHANGED <<audit, remaining>>

-----------------------------------------------------------------------------

Next ==
    \E r \in Slots :
        \/ GetUser(r)
        \/ ListStart(r)
        \/ ListSelect(r)
        \/ CreateStart(r)
        \/ CreateNewAdUser(r)
        \/ CreateInsert(r)
        \/ RefreshGet(r)
        \/ RefreshWrite(r)
        \/ Reread(r)
        \/ ReplaceStart(r)
        \/ ReplaceWritePending(r)
        \/ ReplaceSetAdUser(r)
        \/ PatchStart(r)
        \/ PatchWritePending(r)
        \/ PatchSetAdUser(r)
        \/ WriteError(r)
        \/ WriteSynced(r)
        \/ DeleteStart(r)
        \/ DeleteRemoveAdUser(r)
        \/ DeleteRow(r)
        \/ Finish(r)

Spec == Init /\ [][Next]_vars

SpecAudit == InitAudit /\ [][Next]_vars

\* parameters of a direct run of executePowerShell: every subset of five
\* keys, the sensitive ones carrying the default password
ExecKeys == {"AccountPassword", "PASSWORD", "Token", "secret", "Name"}
ExecParams ==
    {[k \in ks |-> IF k = "Name" THEN Str("Al") ELSE DefaultPassword] : ks \in SUBSET ExecKeys}

\* executePowerShell(script, { cmdlet, params }) called on its own, with
\* parameters no handler passes
ExecRun ==
    /\ NoneDone
    /\ remaining > 0
    /\ \E params \in ExecParams, outcome \in CommandOutcomes, written \in AuditWrites(audit) :
          audit' = AuditInsert(audit, AuditRow("Set-ADUser", params, outcome, Null), written)
    /\ remaining' = remaining - 1
    /\ UNCHANGED <<cache, req>>

NextExec == Next \/ ExecRun

\* the request processor and direct runs of the execution layer
SpecExec == InitAudit /\ [][NextExec]_vars

\* one create, whose New-ADUser run fails in every way of ClassifierStderrs
MaxClassifyRequests == 1

InitClassify ==
    /\ cache = [i \in {} |-> Idle]
    /\ audit = [on |-> FALSE, rejects |-> FALSE, ids |-> FALSE,
               rows |-> EmptyBag]
    /\ req = [r \in Slots |-> Idle]
    /\ remaining = MaxClassifyRequests

NextClassify ==
    \E r \in Slots :
        \/ CreateStart(r)
        \/ CreateNewAdUserWide(r)
        \/ CreateInsert(r)
        \/ RefreshGet(r)
        \/ RefreshWrite(r)
        \/ Reread(r)
        \/ Finish(r)

SpecClassify == InitClassify /\ [][NextClassify]_vars

\* a create of a body with name and emails, then a patch with one of the wide
\* operation lists, one request at a time
MaxPatchRequests == 2

InitPatch ==
    /\ cache = [i \in {} |-> Idle]
    /\ audit = [on |-> FALSE, rejects |-> FALSE, ids |-> FALSE,
               rows |-> EmptyBag]
    /\ req = [r \in Slots |-> Idle]
    /\ remaining = MaxPatchRequests

NextPatch ==
    \/ CreateStartRich(1)
    \/ CreateNewAdUser(1)
    \/ CreateInsert(1)
    \/ RefreshGet(1)
    \/ RefreshWrite(1)
    \/ Reread(1)
    \/ PatchStartWide(1)
    \/ PatchWritePending(1)
    \/ PatchSetAdUser(1)
    \/ WriteError(1)
    \/ WriteSynced(1)
    \/ Finish(1)

SpecPatch == InitPatch /\ [][NextPatch]_vars

\* bodies for the attribute mapper: every combination of a userName with or
\* without '@', displayName, name (both names, givenName only), emails
\* (primary second, none primary, primary first) and active, each present
\* or absent
Opt(k, x) == IF x.t = "u" THEN EmptyObj ELSE (k :> x)
MapNames ==
    {Undef, Obj(("givenName" :> Str("A")) @@ ("familyName" :> Str("Lee"))),
     Obj(("givenName" :> Str("A")))}
MapEmails ==
    {Undef,
     Arr(<<Obj(("value" :> Str("al@home")) @@ ("type" :> Str("home"))),
           Obj(("value" :> Str("al@work")) @@ ("type" :> Str("work"))
               @@ ("primary" :> Bool(TRUE)))>>),
     Arr(<<Obj(("value" :> Str("al@work")) @@ ("type" :> Str("work")))>>),
     Arr(<<Obj(("value" :> Str("al@work")) @@ ("primary" :> Bool(TRUE)))>>)}
MapBodies ==
    {Opt("userName", userName) @@ Opt("displayName", displayName) @@ Opt("name", name)
     @@ Opt("emails", emails) @@ Opt("active", active) :
        userName \in {Str("al"), Str("al@x")}, displayName \in {Undef, Str("Al")},
        name \in MapNames, emails \in MapEmails,
        active \in {Undef, Bool(TRUE), Bool(FALSE)}}

\* the create handler's first step for the bodies of MapBodies
CreateStartMapped(r) == CreateStartFrom(r, MapBodies)

\* one create with a body of MapBodies
MaxMapRequests == 1

InitMap ==
    /\ cache = [i \in {} |-> Idle]
    /\ audit = [on |-> TRUE, rejects |-> FALSE, ids |-> FALSE,
               rows |-> EmptyBag]
    /\ req = [r \in Slots |-> Idle]
    /\ remaining = MaxMapRequests

NextMap ==
    \/ CreateStartMapped(1)
    \/ CreateNewAdUser(1)
    \/ CreateInsert(1)
    \/ RefreshGet(1)
    \/ RefreshWrite(1)
    \/ Reread(1)
    \/ Finish(1)

SpecMap == InitMap /\ [][NextMap]_vars

\* a create of UserBo, then replaces and patches of its row running
\* concurrently, the audit table keeping the order of the directory commands
MaxRaceRequests == 3

InitRace ==
    /\ cache = [i \in {} |-> Idle]
    /\ audit = [on |-> TRUE, rejects |-> FALSE, ids |-> TRUE, rows |-> EmptyBag]
    /\ req = [r \in Slots |-> Idle]
    /\ remaining = MaxRaceRequests

\* the create arrives first, while no other request is in flight
CreateStartRace(r) ==
    /\ DOMAIN cache = {}
    /\ \A r2 \in Slots : req[r2].pc = "idle"
    /\ CreateStartFrom(r, {UserBo})

NextRace ==
    \E r \in Slots :
        \/ CreateStartRace(r)
        \/ CreateNewAdUserRace(r)
        \/ CreateInsert(r)
        \/ RefreshGetRace(r)
        \/ RefreshWrite(r)
        \/ Reread(r)
        \/ ReplaceStartRace(r)
        \/ ReplaceWritePending(r)
        \/ ReplaceSetAdUserRace(r)
        \/ PatchStartRace(r)
        \/ PatchWritePending(r)
        \/ PatchSetAdUserRace(r)
        \/ WriteError(r)
        \/ WriteSynced(r)
        \/ Finish(r)

SpecRace == InitRace /\ [][NextRace]_vars

\* creates and lists, one request at a time, the lists with every query of
\* WideListQueries
MaxListRequests == 4

InitList ==
    /\ cache = [i \in {} |-> Idle]
    /\ audit = [on |-> FALSE, rejects |-> FALSE, ids |-> FALSE,
               rows |-> EmptyBag]
    /\ req = [r \in Slots |-> Idle]
    /\ remaining = MaxListRequests

NextList ==
    \/ CreateStart(1)
    \/ CreateNewAdUser(1)
    \/ CreateInsert(1)
    \/ RefreshGet(1)
    \/ RefreshWrite(1)
    \/ Reread(1)
    \/ ListStartWide(1)
    \/ ListSelect(1)
    \/ Finish(1)

SpecList == InitList /\ [][NextList]_vars

SpecAuditFail == InitAuditFail /\ [][Next]_vars

-----------------------------------------------------------------------------
(* Properties.                                                             *)

\* the handler in slot r takes a step
Stepped(r) == req'[r] # req[r]

NotFoundStderr == "Cannot find an object with identity: 'x'."

\* the error envelope the classifier's rules give the stderrs of the model:
\* "access" and "denied" is 403 without scimType, "cannot find an object
\* with identity" is 404 noTarget, the empty stderr of a timeout matches no
\* rule and is 500 without scimType
ExpectedError(stderr) ==
    IF stderr = NotFoundStderr
    THEN formatError(404, stderr, "noTarget")
    ELSE IF stderr = ""
    THEN formatError(500, stderr, NoScimType)
    ELSE formatError(403, stderr, NoScimType)

\* the first LastErrorMaxLen characters of stderr
Head2000(stderr) ==
    SubSeq(stderr, 1, IF Len(stderr) < LastErrorMaxLen THEN Len(stderr) ELSE LastErrorMaxLen)

\* the view a replace of id with body stores
ReplaceView(body, id) == JsonStringify(Obj(Spread(body, ("id" :> Str(id)))))

\* the row has neither a GUID nor a sAMAccountName
NoIdentity(row) ==
    /\ row.ad_object_guid = Null
    /\ row.sam_account_name \in {Null, Str("")}

\* C1: in every reachable cache state, a row whose sync_status is 'synced'
\* has last_error NULL.
C1_SyncedHasNoLastError ==
    \A i \in DOMAIN cache :
        cache[i].sync_status = "synced" => cache[i].last_error = Null

\* a patch found its row in 'error' with a last_error and has written 'synced'
C1_Witness ==
    \E r \in Slots :
        /\ req[r].op = "patch" /\ req[r].pc = "refreshGet"
        /\ req[r].row[1].sync_status = "error"
        /\ req[r].row[1].last_error # Null
        /\ req[r].id \in DOMAIN cache
        /\ cache[req[r].id].sync_status = "synced"

\* C2: of the creates for one userName, one answers 201 and every other one
\* answers 409 with scimType uniqueness: a create whose directory command
\* succeeded and that answers while a row holds the sam of its userName
\* answers 201 or 409/uniqueness.
C2_ConcurrentCreatesAnswer201Or409 ==
    \A r \in Slots :
        (/\ req[r].op = "create" /\ req[r].pc = "done"
         /\ Truthy(Get(req[r].body, "userName"))
         /\ req[r].exitCode = 0
         /\ ExistsBySam(cache, SamOf(Get(req[r].body, "userName").v))
         /\ req[r].reply.status # 201)
        => (req[r].reply.status = 409 /\ req[r].reply.scimType = "uniqueness")

\* C3: a create whose insert collides on the primary key or on the unique
\* sam_account_name answers 409 with scimType uniqueness.
C3_InsertCollisionAnswers409 ==
    [][\A r \in Slots :
          (/\ At(r, "create", "insert") /\ Stepped(r)
           /\ ExistsBySam(cache, CreateRow(req[r], now(cache)).sam_account_name.v))
          => (req'[r].reply.status = 409 /\ req'[r].reply.scimType = "uniqueness")]_vars

\* C4: when the directory command of a create exits nonzero, the request
\* ends there with the classified error and the cache is as it was: no row
\* is inserted.
C4_FailedCreateInsertsNothing ==
    [][\A r \in Slots :
          (At(r, "create", "newAdUser") /\ Stepped(r) /\ req'[r].exitCode # 0)
          => /\ cache' = cache
             /\ req'[r].pc = "done"
             /\ req'[r].reply = ExpectedError(req'[r].stderr)]_vars

\* a create has answered 403 after its directory command failed, and no row
\* has its id
C4_Witness ==
    \E r \in Slots :
        /\ req[r].op = "create" /\ req[r].pc = "done"
        /\ req[r].exitCode # 0
        /\ req[r].reply.status = 403
        /\ req[r].id \notin DOMAIN cache

\* C5: a replace writes its view with status 'pending' before it runs the
\* directory update; when the update fails, the error write sets 'error' and
\* last_error to the first 2000 characters of stderr, leaves the view in
\* place, the reply is the classified error, and a get then returns the view.
C5_FailedReplaceKeepsNewView ==
    [][\A r \in Slots :
          LET q == req[r] IN
          /\ (req'[r].op = "replace" /\ req'[r].pc = "setAdUser" /\ Stepped(r))
             => /\ q.pc = "writePending"
                /\ q.id \in DOMAIN cache =>
                      /\ cache'[q.id].sync_status = "pending"
                      /\ cache'[q.id].scim_resource = ReplaceView(q.body, q.id)
          /\ (At(r, "replace", "setAdUser") /\ Stepped(r))
             => /\ cache' = cache
                /\ req'[r].exitCode # 0 <=> req'[r].pc = "writeError"
          /\ (At(r, "replace", "writeError") /\ Stepped(r))
             => /\ req'[r].pc = "done"
                /\ req'[r].reply = ExpectedError(q.stderr)
                /\ DOMAIN cache' = DOMAIN cache
                /\ q.id \in DOMAIN cache =>
                      /\ cache'[q.id].sync_status = "error"
                      /\ cache'[q.id].last_error = Str(Head2000(q.stderr))
                      /\ cache'[q.id].scim_resource = cache[q.id].scim_resource
                      /\ cache[q.id].scim_resource = ReplaceView(q.body, q.id) =>
                            /\ GetReply(cache', q.id).status = 200
                            /\ Get(GetReply(cache', q.id).user, "id") = Str(q.id)
                            /\ Get(GetReply(cache', q.id).user, "active")
                                  = Get(q.body, "active")
                            /\ Truthy(Get(q.body, "userName")) =>
                                  Get(GetReply(cache', q.id).user, "userName")
                                     = Get(q.body, "userName")]_vars

\* a replace has failed with a stderr longer than last_error holds; its row is
\* in 'error' and holds the view it wrote, which is not the view it found
C5_Witness ==
    \E r \in Slots :
        /\ req[r].op = "replace" /\ req[r].pc = "done"
        /\ req[r].exitCode # 0
        /\ Len(req[r].stderr) > LastErrorMaxLen
        /\ req[r].id \in DOMAIN cache
        /\ cache[req[r].id].sync_status = "error"
        /\ cache[req[r].id].scim_resource = ReplaceView(req[r].body, req[r].id)
        /\ req[r].row[1].scim_resource # ReplaceView(req[r].body, req[r].id)

\* C6: a replace or patch whose directory write succeeds (or that has nothing
\* to send) comes to the synced write, and the synced write leaves the row
\* 'synced' with last_error NULL, whatever it was before.
C6_SuccessClearsError ==
    [][\A r \in Slots :
          /\ (AtPc(r, "setAdUser") /\ Stepped(r))
             => (req'[r].exitCode = 0 <=> req'[r].pc = "writeSynced")
          /\ (AtPc(r, "writeSynced") /\ Stepped(r) /\ req[r].id \in DOMAIN cache)
             => /\ req[r].id \in DOMAIN cache'
                /\ cache'[req[r].id].sync_status = "synced"
                /\ cache'[req[r].id].last_error = Null]_vars

\* a replace found its row in 'error' with a last_error, its directory update
\* succeeded and it has written 'synced'
C6_Witness ==
    \E r \in Slots :
        /\ req[r].op = "replace" /\ req[r].pc = "refreshGet"
        /\ req[r].exitCode = 0
        /\ req[r].row[1].sync_status = "error"
        /\ req[r].row[1].last_error # Null
        /\ req[r].id \in DOMAIN cache
        /\ cache[req[r].id].sync_status = "synced"
        /\ cache[req[r].id].last_error = Null

\* C7: when the directory removal of a delete fails with a stderr that has
\* neither 'cannot find' nor 'not found', the request ends there with the
\* classified error and the cache is as it was.
C7_FailedDeleteKeepsRow ==
    [][\A r \in Slots :
          (/\ At(r, "delete", "removeAdUser") /\ Stepped(r)
           /\ req'[r].exitCode # 0
           /\ req'[r].stderr # NotFoundStderr)
          => /\ cache' = cache
             /\ req'[r].pc = "done"
             /\ req'[r].reply = ExpectedError(req'[r].stderr)]_vars

\* a delete has answered 403 and the row it found is in the cache as found
C7_Witness ==
    \E r \in Slots :
        /\ req[r].op = "delete" /\ req[r].pc = "done"
        /\ req[r].exitCode # 0
        /\ req[r].reply.status = 403
        /\ req[r].id \in DOMAIN cache
        /\ cache[req[r].id] = req[r].row[1]

\* C8: a delete goes on to remove the row when the directory removal exits 0,
\* when its stderr says 'cannot find' or 'not found', and when the row has no
\* identity; removing the row answers 204 and leaves no row of that id, so
\* that a get of the id answers 404 noTarget.
C8_DeleteRemovesRow ==
    [][\A r \in Slots :
          /\ (/\ At(r, "delete", "removeAdUser") /\ Stepped(r)
              /\ (req'[r].exitCode = 0 \/ req'[r].stderr = NotFoundStderr))
             => (req'[r].pc = "deleteRow" /\ cache' = cache)
          /\ (/\ req[r].pc = "idle" /\ req'[r].op = "delete"
              /\ req'[r].id \in DOMAIN cache
              /\ NoIdentity(cache[req'[r].id]))
             => req'[r].pc = "deleteRow"
          /\ (At(r, "delete", "deleteRow") /\ Stepped(r))
             => /\ req'[r].pc = "done"
                /\ req'[r].reply.status = 204
                /\ req[r].id \notin DOMAIN cache'
                /\ \A i \in DOMAIN cache' : i \in DOMAIN cache /\ cache'[i] = cache[i]
                /\ GetReply(cache', req[r].id).status = 404
                /\ GetReply(cache', req[r].id).scimType = "noTarget"
          /\ (req[r].pc = "idle" /\ req'[r].op = "get" /\ req'[r].id \notin DOMAIN cache)
             => (req'[r].reply.status = 404 /\ req'[r].reply.scimType = "noTarget")]_vars

\* a delete whose directory removal failed with 'Cannot find ...' has answered
\* 204 and no row has its id
C8_Witness ==
    \E r \in Slots :
        /\ req[r].op = "delete" /\ req[r].pc = "done"
        /\ req[r].exitCode # 0
        /\ req[r].reply.status = 204
        /\ req[r].id \notin DOMAIN cache

\* C9: the id inside the stored view of every row is the id of the row,
\* whatever id the body of the create, replace or patch carried.
C9_StoredIdIsRowId ==
    \A i \in DOMAIN cache :
        /\ cache[i].id = i
        /\ Get(JsonParse(cache[i].scim_resource).v, "id") = Str(i)

\* a replace whose body carries another id has written its view
C9_Witness ==
    \E r \in Slots :
        /\ req[r].op = "replace" /\ req[r].pc = "setAdUser"
        /\ Truthy(Get(req[r].body, "id"))
        /\ Get(req[r].body, "id") # Str(req[r].id)
        /\ req[r].id \in DOMAIN cache
        /\ cache[req[r].id].scim_resource = ReplaceView(req[r].body, req[r].id)

\* C10: while a row exists, no step changes an ad_object_guid that is set.
C10_GuidNeverChanges ==
    [][\A i \in DOMAIN cache \cap DOMAIN cache' :
          cache[i].ad_object_guid # Null
          => cache'[i].ad_object_guid = cache[i].ad_object_guid]_vars

\* a row with a GUID has been through a refresh and a failed replace or patch
C10_Witness ==
    \E i \in DOMAIN cache :
        /\ cache[i].ad_object_guid # Null
        /\ cache[i].ad_resource # Null
        /\ cache[i].sync_status = "error"

\* C11: in every reachable cache state no two rows share a sam_account_name
\* that is not NULL, and every sam_account_name has at most 20 characters
\* and no '@'.
C11_SamUniqueShortNoAt ==
    /\ \A i, j \in DOMAIN cache :
          (i # j /\ cache[i].sam_account_name # Null)
          => cache[i].sam_account_name # cache[j].sam_account_name
    /\ \A i \in DOMAIN cache :
          cache[i].sam_account_name.t = "s"
          => /\ Len(cache[i].sam_account_name.v) <= SamMaxLen
             /\ \A k \in 1..Len(cache[i].sam_account_name.v) :
                   SubSeq(cache[i].sam_account_name.v, k, k) # "@"

\* a replace has changed the userName of a row to one whose part before the
\* '@' is longer than 20 characters, the row holds its first 20 characters,
\* and another row exists
C11_Witness ==
    \E i \in DOMAIN cache :
        /\ i # CreateUserId(UserAl, Str(""))
        /\ Get(JsonParse(cache[i].scim_resource).v, "userName") = Get(UserAl, "userName")
        /\ Len(SplitAt0(Get(UserAl, "userName").v)) > SamMaxLen
        /\ Len(cache[i].sam_account_name.v) = SamMaxLen
        /\ DOMAIN cache # {i}

\* C12: the row and the SCIM view do not drift: every row whose stored view
\* carries a userName has as sam_account_name the part of that userName
\* before the first '@', cut to 20 characters.
C12_SamFollowsViewUserName ==
    \A i \in DOMAIN cache :
        Get(JsonParse(cache[i].scim_resource).v, "userName").t = "s"
        => cache[i].sam_account_name
              = Str(SamOf(Get(JsonParse(cache[i].scim_resource).v, "userName").v))

\* the text of url after its last '/'
LastSegment(url) ==
    LET i == CHOOSE j \in 0..Len(url) :
                 /\ j = 0 \/ SubSeq(url, j, j) = "/"
                 /\ \A k \in (j + 1)..Len(url) : SubSeq(url, k, k) # "/"
    IN SubSeq(url, i + 1, Len(url))

\* the values uuidv4() produces in the model
Uuids == {Uuid(k) : k \in 1..(MaxRequests + 1)}

C14_RowIdNotEmpty ==
    \A i \in DOMAIN cache : i # "" /\ cache[i].id # ""

\* C15: a create for a userName whose derived sam (the part before the
\* first '@', first 20 characters) is the sam_account_name of a row answers
\* 409 with scimType uniqueness in the step of its pre-check: no directory
\* command runs, the audit log and the cache are as they were.
C15_DuplicateCreateHasNoEffect ==
    [][\A r \in Slots :
          (/\ req[r].pc = "idle" /\ req'[r].op = "create"
           /\ Truthy(Get(req'[r].body, "userName"))
           /\ \E i \in DOMAIN cache :
                 cache[i].sam_account_name
                    = Str(Substring0(SplitAt0(Get(req'[r].body, "userName").v), 20)))
          => /\ req'[r].pc = "done"
             /\ req'[r].reply.status = 409
             /\ req'[r].reply.scimType = "uniqueness"
             /\ req'[r].reply.kind = "error"
             /\ cache' = cache
             /\ audit' = audit]_vars

\* a create has answered 409/uniqueness; the audit log holds the one row of
\* the create that made the user, and no row of this one
C15_Witness ==
    \E r \in Slots :
        /\ req[r].op = "create" /\ req[r].pc = "done"
        /\ req[r].reply.status = 409 /\ req[r].reply.scimType = "uniqueness"
        /\ ExistsBySam(cache, SamOf(Get(req[r].body, "userName").v))
        /\ audit.on
        /\ BagCardinality(audit.rows) >= 1
        /\ \A row \in BagToSet(audit.rows) :
              row.cmdlet = "New-ADUser" => row.exit_code = 0

\* C16: a create whose body has no userName, and a patch whose Operations
\* is missing, not a list or empty, answer 400 with scimType invalidValue in
\* their first step: no row is looked up, the cache and the audit log are as
\* they were, no directory command runs.
C16_ValidationFailureHasNoEffect ==
    [][\A r \in Slots :
          (/\ req[r].pc = "idle"
           /\ \/ req'[r].op = "create" /\ ~Truthy(Get(req'[r].body, "userName"))
              \/ req'[r].op = "patch" /\ req'[r].ops.t # "l"
              \/ req'[r].op = "patch" /\ req'[r].ops.t = "l" /\ Len(req'[r].ops.v) = 0)
          => /\ req'[r].pc = "done"
             /\ req'[r].reply.kind = "error"
             /\ req'[r].reply.status = 400
             /\ req'[r].reply.scimType = "invalidValue"
             /\ req'[r].row = <<>>
             /\ cache' = cache
             /\ audit' = audit]_vars

\* a patch whose Operations is not a list has answered 400 although the row
\* it addresses exists, and the row is still 'synced'
C16_Witness ==
    \E r \in Slots :
        /\ req[r].op = "patch" /\ req[r].pc = "done"
        /\ req[r].ops = OpsNotList
        /\ req[r].reply.status = 400
        /\ req[r].id \in DOMAIN cache
        /\ cache[req[r].id].sync_status = "synced"
        /\ audit.on /\ BagCardinality(audit.rows) >= 1

\* the audit rows a step adds
NewAuditRows == audit'.rows (-) audit.rows

\* the parameters the mapper gives for the changedFields of the Operations
\* of the model: active=false is Enabled:false, a userName with '@' is
\* SamAccountName and UserPrincipalName, id maps to nothing
ExpectedPatchParams(operations) ==
    IF operations = Arr(OpsActive) THEN ("Enabled" :> Bool(FALSE))
    ELSE IF operations = Arr(OpsUserName)
    THEN ("SamAccountName" :> Str("bo@x")) @@ ("UserPrincipalName" :> Str("bo@x"))
    ELSE EmptyObj

\* C17: the directory update of a patch carries the identity and exactly
\* the parameters mapped from changedFields, never Name or Path; a patch
\* whose parameter map is empty runs no directory command, and its row is
\* then written 'synced'.
C17_PatchSendsChangedFieldsOnly ==
    [][\A r \in Slots :
          LET q == req[r] IN
          /\ (At(r, "patch", "setAdUser") /\ Stepped(r))
             => /\ BagCardinality(NewAuditRows) = 1
                /\ \A row \in BagToSet(NewAuditRows) :
                      /\ row.cmdlet = "Set-ADUser"
                      /\ "Name" \notin DOMAIN JsonParse(row.parameters).v
                      /\ "Path" \notin DOMAIN JsonParse(row.parameters).v
                      /\ JsonParse(row.parameters).v
                            = ("identity" :> q.identity) @@ ExpectedPatchParams(q.ops)
                /\ ExpectedPatchParams(q.ops) # EmptyObj
          /\ (At(r, "patch", "writePending") /\ Stepped(r)
              /\ ExpectedPatchParams(q.ops) = EmptyObj /\ req'[r].pc # "done")
             => /\ req'[r].pc = "writeSynced"
                /\ audit' = audit
          /\ (At(r, "patch", "writeSynced") /\ Stepped(r) /\ q.id \in DOMAIN cache)
             => /\ cache'[q.id].sync_status = "synced"
                /\ audit' = audit]_vars

\* a patch of id alone has written 'synced' and no directory update has run
C17_Witness ==
    \E r \in Slots :
        /\ req[r].op = "patch" /\ req[r].pc = "refreshGet"
        /\ req[r].ops = Arr(OpsId)
        /\ req[r].id \in DOMAIN cache
        /\ cache[req[r].id].sync_status = "synced"
        /\ audit.on
        /\ \A row \in BagToSet(audit.rows) : row.cmdlet # "Set-ADUser"

\* C18: a create, replace or patch that answers with success has run a
\* read-back of its user (Get-ADUser for the id of the request) before the
\* answer.
C18_SuccessHasReadBack ==
    \A r \in Slots :
        (/\ req[r].pc = "done"
         /\ req[r].op \in {"create", "replace", "patch"}
         /\ req[r].reply.status \in {200, 201})
        => \E row \in BagToSet(audit.rows) :
              row.cmdlet = "Get-ADUser" /\ row.scim_user_id = Str(req[r].id)

\* C19: a refresh whose directory read fails or returns nothing, or whose
\* ad_resource write fails, leaves every row as it was; a refresh changes
\* no column other than ad_resource; in each case the handler goes on to
\* its final read and answers with the success status of its operation.
C19_RefreshFailureIsIgnored ==
    [][\A r \in Slots :
          LET q == req[r] IN
          /\ (AtPc(r, "refreshGet") /\ Stepped(r) /\ req'[r].pc # "refreshWrite")
             => /\ cache' = cache
                /\ req'[r].pc = "reread"
          /\ (AtPc(r, "refreshWrite") /\ Stepped(r))
             => /\ req'[r].pc = "reread"
                /\ DOMAIN cache' = DOMAIN cache
                /\ \A i \in DOMAIN cache :
                      cache'[i] = [cache[i] EXCEPT !.ad_resource = cache'[i].ad_resource]
                /\ \A i \in DOMAIN cache \ {q.id} : cache'[i] = cache[i]
          /\ (AtPc(r, "reread") /\ Stepped(r) /\ q.id \in DOMAIN cache)
             => /\ req'[r].reply.kind = "user"
                /\ req'[r].reply.status = (IF q.op = "create" THEN 201 ELSE 200)
                /\ req'[r].reply.user = formatScimUser(cache[q.id])]_vars

\* a replace has answered 200 although its refresh wrote nothing: the row
\* is 'synced' with its new view and ad_resource is still NULL
C19_Witness ==
    \E r \in Slots :
        /\ req[r].op = "replace" /\ req[r].pc = "done"
        /\ req[r].reply.status = 200
        /\ req[r].id \in DOMAIN cache
        /\ cache[req[r].id].ad_resource = Null
        /\ cache[req[r].id].sync_status = "synced"
        /\ cache[req[r].id].last_error = Null
        /\ cache[req[r].id].scim_resource = ReplaceView(req[r].body, req[r].id)

\* the directory command a handler position runs
CmdletAt(pc) ==
    CASE pc = "newAdUser" -> "New-ADUser"
      [] pc = "setAdUser" -> "Set-ADUser"
      [] pc = "removeAdUser" -> "Remove-ADUser"
      [] pc = "refreshGet" -> "Get-ADUser"
      [] OTHER -> ""

\* C20: every step that runs a directory command (create, update, delete,
\* read), whatever its exit, adds exactly one row to the audit log, for that
\* command and the id of the request; every other step leaves the audit log
\* as it is; no step removes or changes a row.
C20_OneAuditRowPerRun ==
    [][/\ audit.rows \sqsubseteq audit'.rows
       /\ \A r \in Slots :
             /\ (Stepped(r) /\ CmdletAt(req[r].pc) # "")
                => /\ BagCardinality(NewAuditRows) = 1
                   /\ BagCardinality(audit'.rows) = BagCardinality(audit.rows) + 1
                   /\ \A row \in BagToSet(NewAuditRows) :
                         /\ row.cmdlet = CmdletAt(req[r].pc)
                         /\ row.scim_user_id = Str(req[r].id)
                         /\ req[r].pc # "refreshGet"
                            => /\ row.exit_code = req'[r].exitCode
                               /\ row.stderr = req'[r].stderr
             /\ (Stepped(r) /\ CmdletAt(req[r].pc) = "") => audit' = audit]_vars

\* the audit log holds the row of a run that exited 0 and the row of a
\* directory update that timed out
C20_Witness ==
    /\ audit.on
    /\ \E row \in BagToSet(audit.rows) : row.exit_code = 0
    /\ \E row \in BagToSet(audit.rows) :
          row.cmdlet = "Set-ADUser" /\ row.exit_code = 1 /\ row.stderr = ""

\* the outcomes the directory command at the position of q can have
OutcomesAt(q) ==
    CASE q.pc = "newAdUser" -> NewAdUserOutcomes(q.id)
      [] q.pc = "refreshGet" -> GetAdUserOutcomes(q.identity)
      [] OTHER -> CommandOutcomes

\* what the handler q does with the result of its directory command
HandlerAfter(q, psResult) ==
    CASE q.pc = "newAdUser" -> CreateAfterNewAdUser(q, psResult)
      [] q.pc = "refreshGet" -> AfterGetAdUser(q, psResult)
      [] q.pc = "setAdUser" -> AfterSetAdUser(q, psResult)
      [] OTHER -> AfterRemoveAdUser(q, psResult)

\* C21: a step that runs a directory command and whose audit insert is
\* rejected (the audit log stays as it is) leaves the cache as it is and
\* takes the handler where the result of one of the command's outcomes takes
\* it: the rejection changes neither the result of the run nor what the
\* request does with it.
C21_AuditFailureChangesNothing ==
    [][\A r \in Slots :
          (Stepped(r) /\ CmdletAt(req[r].pc) # "" /\ audit' = audit)
          => /\ cache' = cache
             /\ remaining' = remaining
             /\ \E outcome \in OutcomesAt(req[r]) :
                   req'[r] = HandlerAfter(req[r], PsResult(outcome))]_vars

\* a create is answered 201 with the read-back of its account stored, and
\* neither the insert of its New-ADUser run nor that of its Get-ADUser run
\* was written
C21_Witness ==
    /\ audit.rejects
    /\ audit.rows = EmptyBag
    /\ \E r \in Slots :
        /\ req[r].op = "create"
        /\ req[r].pc = "done"
        /\ req[r].reply.status = 201
        /\ cache[req[r].id].ad_resource # Null

\* the parameters object an audit row holds
ParametersOf(row) == JsonParse(row.parameters).v

\* the parameter names the handlers and the direct runs log, in lower case
LoggedKeys ==
    ExecKeys \cup {"identity", "Path", "SamAccountName", "UserPrincipalName", "GivenName",
                   "Surname", "EmailAddress", "DisplayName", "Enabled", "EmployeeID"}
LowerKey == [k \in LoggedKeys |-> ToLowerCase(k)]

\* C22: in every audit row, a parameter whose key is, in lower case,
\* accountpassword, password, secret or token has the redaction marker as its
\* value, and no parameter's value contains the default password.
C22_NoPasswordInAuditLog ==
    \A row \in BagToSet(audit.rows) :
        \A k \in DOMAIN ParametersOf(row) :
            /\ LowerKey[k] \in SensitiveKeys => ParametersOf(row)[k] = Str(Redacted)
            /\ ParametersOf(row)[k].t = "s"
               => ~Includes(ParametersOf(row)[k].v, DefaultPassword.v)

\* the audit log holds the row of a create's New-ADUser run and a row whose
\* parameters had the default password under AccountPassword and PASSWORD
C22_Witness ==
    /\ \E row \in BagToSet(audit.rows) : row.cmdlet = "New-ADUser"
    /\ \E row \in BagToSet(audit.rows) :
          /\ {"AccountPassword", "PASSWORD", "Name"} \subseteq DOMAIN ParametersOf(row)
          /\ ParametersOf(row)["PASSWORD"] = Str(Redacted)

\* C23: the audit row of a New-ADUser run that exited 0 has the parameter
\* AccountPassword, with the redaction marker as its value.
C23_CreateRowHasRedactedPassword ==
    \A row \in BagToSet(audit.rows) :
        (row.cmdlet = "New-ADUser" /\ row.exit_code = 0)
        => Get(ParametersOf(row), "AccountPassword") = Str(Redacted)

\* the classifier's tests, numbered in the order in which they are applied,
\* on a lower-cased error text
RuleMatches(i, msg) ==
    CASE i = 1 -> Includes(msg, "already exists") \/ Includes(msg, "already in use")
      [] i = 2 -> \/ Includes(msg, "cannot find an object with identity")
                  \/ Includes(msg, "not found")
                  \/ Includes(msg, "no such object")
      [] i = 3 -> /\ Includes(msg, "password")
                  /\ \E w \in {"complexity", "length", "requirement"} : Includes(msg, w)
      [] i = 4 -> Includes(msg, "access") /\ Includes(msg, "denied")
      [] i = 5 -> Includes(msg, "invalid") \/ Includes(msg, "bad request")
      [] OTHER -> TRUE

\* the first test that matches
FirstRule(msg) ==
    CHOOSE i \in 1..6 : RuleMatches(i, msg) /\ \A j \in 1..(i - 1) : ~RuleMatches(j, msg)

RuleStatus == <<409, 404, 400, 403, 400, 500>>
RuleScimType == <<"uniqueness", "noTarget", "invalidValue", NoScimType, "invalidValue",
                  NoScimType>>

\* C24: a create whose New-ADUser run exits nonzero is answered with the
\* status and scimType of the first of the classifier's tests, in the stated
\* order, that the lower-cased stderr passes, and with the stderr, as the
\* directory wrote it, as detail.
C24_ClassifierFirstMatchWins ==
    \A r \in Slots :
        (req[r].op = "create" /\ req[r].pc = "done" /\ req[r].exitCode # 0)
        => req[r].reply =
              formatError(RuleStatus[FirstRule(ToLowerCase(req[r].stderr))],
                          req[r].stderr,
                          RuleScimType[FirstRule(ToLowerCase(req[r].stderr))])

\* a stderr that passes the tests of 409, 404, 400, 403 and 400 is answered
\* 409, or one in mixed case that passes the password test is answered 400
\* with itself as detail
C24_Witness ==
    \E r \in Slots :
        /\ req[r].op = "create"
        /\ req[r].pc = "done"
        /\ \/ /\ req[r].stderr = "invalid access denied password complexity not found already in use"
              /\ req[r].reply.status = 409
           \/ /\ req[r].stderr = "The PASSWORD does not meet the LENGTH Requirement"
              /\ req[r].reply.status = 400
              /\ req[r].reply.detail = req[r].stderr

\* the list request of slot r has been answered
ListDone(r) == req[r].op = "list" /\ req[r].pc = "done"

\* the ids of the resources of a list reply, in their order
ResourceIds(reply) == [k \in DOMAIN reply.list.Resources |-> reply.list.Resources[k]["id"].v]

\* C25: a list with the filter userName eq "bo@x", and the default page,
\* over a cache that holds a row whose sam_account_name is "bo" returns that
\* row.
C25_UserNameFilterFindsSam ==
    \A r \in Slots :
        (/\ ListDone(r)
         /\ req[r].query = Query(Str("userName eq \"bo@x\""), Undef, Undef))
        => \A i \in DOMAIN cache :
              cache[i].sam_account_name = Str("bo")
              => \E k \in DOMAIN req[r].reply.list.Resources :
                    ResourceIds(req[r].reply)[k] = i

\* the unsupported filters of the claim: an operator other than eq, a
\* compound or negated expression, an attribute other than id, externalId
\* and userName
ClaimedUnsupported ==
    {"userName co \"b\"", "userName ne \"bo\"", "userName sw \"b\"", "userName pr \"\"",
     "not (userName eq \"bo\")", "userName eq \"bo\" and id eq \"a\"",
     "userName eq \"bo\" or userName eq \"cy\"", "emails.value eq \"bo\"",
     "displayName eq \"Bo\"", "name.familyName eq \"bo\"",
     "urn:ietf:params:scim:schemas:extension:enterprise:2.0:User:department eq \"x\""}

\* the rows of c, oldest first
OldestFirst(c) == OrderByCreatedAt(c, DOMAIN c)

C27_PageNumbersAreClamped ==
    \A r \in Slots :
        req[r].op = "list"
        => /\ \A n \in StartIndexInts :
                 req[r].query["startIndex"] = Number(n)
                 => req[r].startIndex = (IF n < 1 THEN 1 ELSE n)
           /\ \A n \in CountInts :
                 req[r].query["count"] = Number(n)
                 => req[r].pageSize = (IF n < 1 THEN 1 ELSE IF n > 200 THEN 200 ELSE n)
           /\ req[r].pc = "done" => req[r].reply.list.startIndex = req[r].startIndex

\* a list with startIndex=0 and count=500 is answered with startIndex 1 and
\* ran with page size 200
C27_Witness ==
    \E r \in Slots :
        /\ ListDone(r)
        /\ req[r].query["startIndex"] = Str("0")
        /\ req[r].query["count"] = Str("500")
        /\ req[r].reply.list.startIndex = 1
        /\ req[r].pageSize = 200

\* the column and the value the supported filters of the model compare
ExpectedColumn(f) ==
    IF f \in {"id eq \"a\"", "externalId eq \"a\"", "externalId eq \"\"", "id eq \"uuid-1\""}
    THEN "id" ELSE "sam_account_name"
ExpectedValue(f) ==
    CASE f \in {"userName eq \"bo\"", "USERNAME EQ \"bo\""} -> "bo"
      [] f = "userName eq \"alexander.the.great.\"" -> "alexander.the.great."
      [] f = "userName eq \"bo@x\"" -> "bo@x"
      [] f = "  userName   eq   \"cy\"  " -> "cy"
      [] f \in {"id eq \"a\"", "externalId eq \"a\""} -> "a"
      [] f = "externalId eq \"\"" -> ""
      [] f = "id eq \"uuid-1\"" -> "uuid-1"
      [] f = "userName eq \"BO\"" -> "BO"

\* the ids of the rows of c that a filter of the model selects
ExpectedMatching(c, filter) ==
    IF filter.t = "s" /\ filter.v \in SupportedFilters
    THEN {i \in DOMAIN c :
            IF ExpectedColumn(filter.v) = "id"
            THEN i = ExpectedValue(filter.v)
            ELSE c[i].sam_account_name = Str(ExpectedValue(filter.v))}
    ELSE DOMAIN c

\* the number of rows with an id in ids that were created before row i
Before(c, ids, i) == Cardinality({j \in ids : c[j].created_at < c[i].created_at})

\* C28: a list over a cache that does not change while it runs answers with
\* totalResults the number of rows its predicate selects (all rows without
\* one); with Resources the selected rows that have at least startIndex-1
\* and fewer than startIndex-1+pageSize selected rows created before them,
\* each at the place its creation time gives it; and with itemsPerPage the
\* number of Resources.
C28_ListPage ==
    \A r \in Slots :
        ListDone(r)
        => LET ids == ExpectedMatching(cache, req[r].query["filter"])
               first == req[r].startIndex - 1
               page == {i \in ids : /\ Before(cache, ids, i) >= first
                                    /\ Before(cache, ids, i) < first + req[r].pageSize}
               list == req[r].reply.list
           IN /\ req[r].reply.status = 200
              /\ list.totalResults = Cardinality(ids)
              /\ list.itemsPerPage = Len(list.Resources)
              /\ Len(list.Resources) = Cardinality(page)
              /\ \A i \in page :
                    list.Resources[Before(cache, ids, i) - first + 1]
                        = formatScimUser(cache[i])

\* a list with startIndex=2 and count=1 over three rows returns the second
\* oldest row alone, with totalResults 3
C28_Witness ==
    \E r \in Slots :
        /\ ListDone(r)
        /\ Cardinality(DOMAIN cache) = 3
        /\ req[r].query = Query(Undef, Str("2"), Str("1"))
        /\ req[r].reply.list.totalResults = 3
        /\ req[r].reply.list.itemsPerPage = 1
        /\ \E i \in DOMAIN cache :
              /\ Before(cache, DOMAIN cache, i) = 1
              /\ req[r].reply.list.Resources = <<formatScimUser(cache[i])>>

\* the handler in slot r is about to apply its operations to the view of
\* the row it read
Applying(r) == req[r].op = "patch" /\ req[r].pc = "writePending"
ViewOf(r) == JsonParse(req[r].row[1].scim_resource).v

\* the top-level key of a path: what precedes the first '.' or '['
TopLevelKey(path) ==
    IF IndexOf(path, "[") > 0 THEN SubSeq(path, 1, IndexOf(path, "[") - 1)
    ELSE IF IndexOf(path, ".") > 0 THEN SubSeq(path, 1, IndexOf(path, ".") - 1)
    ELSE path

\* a list of one replace operation with a path
OneReplace(ops) == Len(ops) = 1 /\ ops[1].op = "replace" /\ ops[1].path.t = "s"

\* C29: for the view of a row and one replace operation with a path,
\* applying the operation to the result of applying it gives that result
\* again, and changedFields has the top-level key of the path both times.
C29_ReplaceIsIdempotent ==
    \A r \in Slots :
        (Applying(r) /\ OneReplace(req[r].ops.v))
        => LET once == applyPatchOps(ViewOf(r), req[r].ops.v)
               twice == applyPatchOps(once.updated, req[r].ops.v)
           IN ~once.threw
              => /\ ~twice.threw
                 /\ twice.updated = once.updated
                 /\ TopLevelKey(req[r].ops.v[1].path.v) \in DOMAIN once.changedFields
                 /\ TopLevelKey(req[r].ops.v[1].path.v) \in DOMAIN twice.changedFields

\* C30: after applyPatchOps(resource, operations), for the view of a row
\* and the operations of a PATCH, the object passed as resource, with its
\* nested objects and the elements of its lists, is what it was before.
C30_InputIsNotMutated ==
    \A r \in Slots :
        Applying(r) => InputAfter(ViewOf(r), req[r].ops.v) = ViewOf(r)

\* the stored SCIM view of the row with id i
StoredView(i) == JsonParse(cache[i].scim_resource).v

\* C31: for the stored view of every row, created from a body with or
\* without nested objects and lists or left by a patch, applying the empty
\* list of operations ends normally with updated equal to the view and an
\* empty changedFields, and leaves the view passed in as it was.
C31_EmptyPatchIsIdentity ==
    \A i \in DOMAIN cache :
        /\ applyPatchOps(StoredView(i), <<>>) =
               PatchState(StoredView(i), EmptyObj, FALSE)
        /\ InputAfter(StoredView(i), <<>>) = StoredView(i)

\* a row whose view has a name object and a list of e-mails
C31_Witness ==
    \E i \in DOMAIN cache :
        /\ Get(StoredView(i), "name").t = "o"
        /\ Get(StoredView(i), "emails").t = "l"
        /\ Len(Get(StoredView(i), "emails").v) = 2

\* a list of one add or replace operation with a multi-valued path
OneUpsert(ops) ==
    /\ Len(ops) = 1
    /\ ToLowerCase(ops[1].op) \in {"add", "replace"}
    /\ ops[1].path.t = "s"
    /\ MvMatch(ops[1].path.v).ok

\* the array under attr in a resource, empty when the attribute is absent
ArrayAt(resource, attr) == Coalesce(Get(resource, attr), Arr(<<>>)).v

\* no element of the array under the path's attribute matches its filter
NoneMatches(resource, m) ==
    \A k \in 1..Len(ArrayAt(resource, m.attr)) :
        ~matchesFilter(ArrayAt(resource, m.attr)[k], m.val)

\* C32: for the view of a row and one add or replace operation with a path
\* attr[name eq value] or attr[name eq value].subAttr whose filter no
\* element of attr matches, the operation leaves attr one element longer,
\* the elements before it unchanged, and the new last element matches the
\* filter and, when the path has a subAttr, holds the value under it.
C32_AppendedElementSatisfiesFilter ==
    \A r \in Slots :
        (Applying(r) /\ OneUpsert(req[r].ops.v))
        => LET m == MvMatch(req[r].ops.v[1].path.v)
               before == ArrayAt(ViewOf(r), m.attr)
               after == ArrayAt(applyPatchOps(ViewOf(r), req[r].ops.v).updated, m.attr)
           IN NoneMatches(ViewOf(r), m)
              => /\ Len(after) = Len(before) + 1
                 /\ SubSeq(after, 1, Len(before)) = before
                 /\ matchesFilter(after[Len(after)], m.val)
                 /\ m.sub.t = "s"
                    => Member(after[Len(after)], m.sub.v) = req[r].ops.v[1].value

\* the value of the first e-mail of u flagged primary, undefined when none
PrimaryValue(u) ==
    LET emails == Coalesce(Get(u, "emails"), Arr(<<>>)).v
        flagged == {i \in DOMAIN emails : Member(emails[i], "primary") = Bool(TRUE)}
    IN IF flagged = {} THEN Undef
       ELSE Member(emails[CHOOSE i \in flagged : \A j \in flagged : i <= j], "value")

\* the mapped subset of a SCIM user
MappedSubset(u) ==
    [userName |-> Get(u, "userName"), displayName |-> Get(u, "displayName"),
     givenName |-> Member(Get(u, "name"), "givenName"),
     familyName |-> Member(Get(u, "name"), "familyName"),
     active |-> Get(u, "active"), email |-> PrimaryValue(u)]

\* every field of the mapped subset is set
MappedSet(u) ==
    /\ \A f \in {"userName", "displayName", "givenName", "familyName", "email"} :
          MappedSubset(u)[f].t = "s" /\ MappedSubset(u)[f].v # ""
    /\ MappedSubset(u).active.t = "b"

\* a record that differs from the bodies of MapBodies in every mapped field
UserOther ==
    ("userName" :> Str("zed")) @@ ("displayName" :> Str("Zed"))
    @@ ("name" :> Obj(("givenName" :> Str("Z")) @@ ("middleName" :> Str("Q"))))
    @@ ("emails" :> Arr(<<Obj(("value" :> Str("zed@x")) @@ ("primary" :> Bool(TRUE)))>>))
    @@ ("title" :> Str("Dr"))

\* the body of a create that has passed validation
Mapping(r) == req[r].op = "create" /\ req[r].pc = "newAdUser"

\* C33: for the body u of a create whose mapped fields are all set, the
\* parameters scimToAdParams gives for u (with or without an OU), merged by
\* mergeAdIntoScim into an empty record, into u or into another user's
\* record, give a record with the mapped subset of u.
C33_MapRoundTrip ==
    \A r \in Slots :
        (Mapping(r) /\ MappedSet(req[r].body))
        => \A existing \in {EmptyObj, req[r].body, UserOther}, baseOu \in {Undef, BaseOu} :
              MappedSubset(mergeAdIntoScim(existing, scimToAdParams(req[r].body, baseOu)))
                  = MappedSubset(req[r].body)

\* a create whose body has every mapped field set, the primary e-mail
\* second in the list, active false and an '@' in the userName
C33_Witness ==
    \E r \in Slots :
        /\ Mapping(r) /\ MappedSet(req[r].body)
        /\ Len(req[r].body["emails"].v) = 2
        /\ Member(req[r].body["emails"].v[2], "primary") = Bool(TRUE)
        /\ req[r].body["active"] = Bool(FALSE)
        /\ req[r].body["userName"] = Str("al@x")

\* a request for the row id is in flight
InFlight(id) == \E r \in Slots : req[r].pc # "idle" /\ req[r].id = id

\* the attributes of the account of user id after the first n directory
\* commands: each New-ADUser or Set-ADUser run for the user that ended with
\* exit code 0 sets the attributes it was given, in the order of the runs
RECURSIVE DirectoryAfter(_, _)
DirectoryAfter(id, n) ==
    IF n = 0 THEN EmptyObj
    ELSE LET runs == {row \in BagToSet(audit.rows) :
                         /\ row.id = n /\ row.scim_user_id = Str(id)
                         /\ row.exit_code = 0
                         /\ row.cmdlet \in {"New-ADUser", "Set-ADUser"}}
         IN IF runs = {} THEN DirectoryAfter(id, n - 1)
            ELSE Spread(DirectoryAfter(id, n - 1),
                        Without(ParametersOf(CHOOSE row \in runs : TRUE), {"identity"}))

Directory(id) == DirectoryAfter(id, BagCardinality(audit.rows))

\* the parameters a replace would send for the stored view of row id
MappedFromView(id) == StripNamePath(scimToAdParams(StoredView(id), Undef))

\* C34: whenever no request for a row is in flight and the row is 'synced',
\* every attribute mapped from the row's stored view has, in the directory,
\* the value mapped from the view.
C34_SyncedMeansDirectoryHasView ==
    \A i \in DOMAIN cache :
        (~InFlight(i) /\ cache[i].sync_status = "synced")
        => \A k \in DOMAIN MappedFromView(i) :
              Get(Directory(i), k) = MappedFromView(i)[k]

\* C35: whenever no request for a row is in flight, the row's sync_status
\* is 'synced' or 'error'.
C35_PendingOnlyInFlight ==
    \A i \in DOMAIN cache :
        ~InFlight(i) => cache[i].sync_status \in {"synced", "error"}

\* C36: the step of a create that follows a successful directory command
\* inserts the request's row: afterwards the cache holds, under the new id,
\* the row built from the request.
C36_SuccessfulCreateInsertsRow ==
    [][\A r \in Slots :
          (At(r, "create", "insert") /\ Stepped(r))
          => /\ req[r].id \in DOMAIN cache'
             /\ cache'[req[r].id] = CreateRow(req[r], now(cache))]_vars

\* the audit rows of the successful New-ADUser runs for user id
NewAdUserRuns(id) ==
    {row \in BagToSet(audit.rows) :
        row.cmdlet = "New-ADUser" /\ row.exit_code = 0 /\ row.scim_user_id = Str(id)}

\* C37: when a create inserts its row, the SamAccountName that its
\* New-ADUser run was given is the sam_account_name of the row.
C37_SentSamIsStoredSam ==
    [][\A r \in Slots :
          (/\ At(r, "create", "insert") /\ Stepped(r)
           /\ req[r].id \in DOMAIN cache' /\ req[r].id \notin DOMAIN cache)
          => /\ NewAdUserRuns(req[r].id) # {}
             /\ \A row \in NewAdUserRuns(req[r].id) :
                   Get(ParametersOf(row), "SamAccountName")
                       = cache'[req[r].id].sam_account_name]_vars

\* the handler in slot r is one that writes to an existing row: a replace,
\* a patch, or the refresh that ends a create, a replace or a patch
Writer(r) ==
    \/ req[r].op \in {"replace", "patch"}
    \/ req[r].pc \in {"refreshGet", "refreshWrite"}

\* C38: a step of a replace, a patch or a refresh adds no row to the cache,
\* and when no row has the request's id (a delete has removed it since the
\* request read it) the step leaves the cache as it is.
C38_DeleteIsFinal ==
    [][\A r \in Slots :
          (Stepped(r) /\ Writer(r))
          => /\ DOMAIN cache' \subseteq DOMAIN cache
             /\ req[r].id \notin DOMAIN cache => cache' = cache]_vars

\* a replace or patch that read its row is about to write its status or
\* the read-back, and the row has been deleted meanwhile
C38_Witness ==
    \E r \in Slots :
        /\ req[r].op \in {"replace", "patch"}
        /\ req[r].pc \in {"writeSynced", "writeError", "refreshWrite"}
        /\ req[r].row # <<>>
        /\ req[r].id \notin DOMAIN cache

\* the reply is 200 with the formatted user, or a SCIM error envelope
UserOrScimError(reply) ==
    \/ reply.kind = "user" /\ reply.status = 200
    \/ reply.kind = "error"

\* C39: the final re-read of a replace or patch, which found its row at the
\* start, answers 200 with the formatted user or a SCIM error envelope.
C39_RereadAnswersUserOrError ==
    [][\A r \in Slots :
          (/\ AtPc(r, "reread") /\ req[r].op \in {"replace", "patch"}
           /\ req[r].row # <<>> /\ Stepped(r))
          => UserOrScimError(req'[r].reply)]_vars

\* C40: a step of a get or a list leaves the cache and the audit table as
\* they are (no row changes, no directory command is run or logged), and a
\* get answers in that step: 404 with scimType noTarget when no row has the
\* id, 200 with the user of that id when one has.
C40_ReadsAreReadOnly ==
    [][\A r \in Slots :
          (Stepped(r) /\ req'[r].op \in {"get", "list"})
          => /\ cache' = cache
             /\ audit' = audit
             /\ req'[r].op = "get"
                => /\ req'[r].pc = "done"
                   /\ IF req'[r].id \in DOMAIN cache
                      THEN /\ req'[r].reply.kind = "user"
                           /\ req'[r].reply.status = 200
                           /\ req'[r].reply.user["id"] = Str(req'[r].id)
                      ELSE /\ req'[r].reply.kind = "error"
                           /\ req'[r].reply.status = 404
                           /\ req'[r].reply.scimType = "noTarget"]_vars

\* a get that answered 404 while the cache and the audit table hold rows
C40_Witness ==
    /\ DOMAIN cache # {}
    /\ BagCardinality(audit.rows) >= 1
    /\ \E r \in Slots :
          /\ req[r].op = "get" /\ req[r].pc = "done"
          /\ req[r].reply.status = 404

====
